---- MODULE Spec2Model ----
(***************************************************************************)
(* A model of the single-table B+ tree storage engine of src/src/main.rs:  *)
(* the pager (page cache over a file of 4096-byte pages), the node layout  *)
(* accessors, search, the scan cursor and insertion with leaf and internal *)
(* splits and root promotion.                                              *)
(*                                                                         *)
(* A page is modelled at the granularity of the 32-bit words the program   *)
(* reads and writes.  The leaf view and the internal view of a page share  *)
(* the same bytes: the word at offset 6 is num_cells and num_keys, the     *)
(* word at offset 10 is next_leaf and right_child, and the internal cells  *)
(* 0..3 (offsets 14..45) lie inside leaf cell 0 (offsets 14..308): the     *)
(* child of internal cell 0 is the key of leaf cell 0, its key is the row  *)
(* id of leaf cell 0, and internal cells 1..3 are the first six words of   *)
(* the username of leaf cell 0.  The model keeps this overlay, so that     *)
(* bytes left behind by an earlier use of a page are read as the program   *)
(* reads them.                                                             *)
(*                                                                         *)
(* The accessors that go through get_u32_at_mut form a reference to a u32  *)
(* at an address that is not 4-aligned.  The model follows the builds in   *)
(* which such an access reads and writes the four bytes (x86-64 release).  *)
(***************************************************************************)
EXTENDS Integers, Sequences, FiniteSets, TLC

(***************************************************************************)
(* Program constants.                                                      *)
(***************************************************************************)
COLUMN_USERNAME_SIZE == 32
COLUMN_EMAIL_SIZE == 255
ID_SIZE == 4
ROW_SIZE == ID_SIZE + COLUMN_USERNAME_SIZE + COLUMN_EMAIL_SIZE
PAGE_SIZE == 4096
TABLE_MAX_PAGES == 100
COMMON_NODE_HEADER_SIZE == 1 + 1 + 4
LEAF_NODE_HEADER_SIZE == COMMON_NODE_HEADER_SIZE + 4 + 4
LEAF_NODE_CELL_SIZE == 4 + ROW_SIZE
LEAF_NODE_SPACE_FOR_CELLS == PAGE_SIZE - LEAF_NODE_HEADER_SIZE
LEAF_NODE_MAX_CELLS == LEAF_NODE_SPACE_FOR_CELLS \div LEAF_NODE_CELL_SIZE
LEAF_NODE_RIGHT_SPLIT_COUNT == (LEAF_NODE_MAX_CELLS + 1) \div 2
LEAF_NODE_LEFT_SPLIT_COUNT == (LEAF_NODE_MAX_CELLS + 1) - LEAF_NODE_RIGHT_SPLIT_COUNT
INTERNAL_NODE_HEADER_SIZE == COMMON_NODE_HEADER_SIZE + 4 + 4
INTERNAL_NODE_CELL_SIZE == 4 + 4
INTERNAL_NODE_MAX_CELLS == 3
\* u32::MAX.  The model checker's integers end at 2^31 - 1; every other word
\* the model stores (keys, page numbers, username words) is below that, so
\* the largest integer stands for u32::MAX: it compares equal only to itself
\* and is not the number of a page (>= TABLE_MAX_PAGES).
INVALID_PAGE_NUM == 2147483647
NODE_INTERNAL == 0
NODE_LEAF == 1

(***************************************************************************)
(* The words of a page the model keeps.  OverlayWords is the number of     *)
(* username words of leaf cell 0 that internal cells 1..3 occupy.          *)
(***************************************************************************)
OverlayWords == 2 * INTERNAL_NODE_MAX_CELLS
ZeroName == [w \in 1..OverlayWords |-> 0]
ZeroCell == [key |-> 0, id |-> 0, un |-> ZeroName, rest |-> 0]
ZeroPage ==
  [node_type |-> 0, is_root |-> 0, parent |-> 0, w6 |-> 0, w10 |-> 0,
   cells |-> [i \in 0..(LEAF_NODE_MAX_CELLS - 1) |-> ZeroCell]]

(***************************************************************************)
(* Node layout accessors (pure functions of a page).                       *)
(***************************************************************************)
get_node_type(node) == node.node_type
set_node_type(node, t) == [node EXCEPT !.node_type = t]
is_node_root(node) == node.is_root # 0
set_node_root(node, b) == [node EXCEPT !.is_root = IF b THEN 1 ELSE 0]
node_parent(node) == node.parent
set_node_parent(node, p) == [node EXCEPT !.parent = p]

leaf_node_num_cells(node) == node.w6
set_leaf_node_num_cells(node, n) == [node EXCEPT !.w6 = n]
get_leaf_node_next_leaf(node) == node.w10
set_leaf_node_next_leaf(node, n) == [node EXCEPT !.w10 = n]
leaf_node_key(node, i) == node.cells[i].key
leaf_node_cell(node, i) == node.cells[i]
set_leaf_node_cell(node, i, c) == [node EXCEPT !.cells[i] = c]
\* The 291 row bytes of leaf cell i: id, username, email.
leaf_node_value(node, i) ==
  [id |-> node.cells[i].id, un |-> node.cells[i].un, rest |-> node.cells[i].rest]

internal_node_num_keys(node) == node.w6
set_internal_node_num_keys(node, n) == [node EXCEPT !.w6 = n]
internal_node_right_child(node) == node.w10
set_internal_node_right_child(node, p) == [node EXCEPT !.w10 = p]
\* The child word of internal cell j (offset 14 + 8j), j in 0..3.
internal_node_cell_child(node, j) ==
  IF j = 0 THEN node.cells[0].key ELSE node.cells[0].un[2 * j - 1]
\* The key word of internal cell j (offset 18 + 8j), j in 0..3.
internal_node_key(node, j) ==
  IF j = 0 THEN node.cells[0].id ELSE node.cells[0].un[2 * j]
set_internal_node_cell_child(node, j, v) ==
  IF j = 0 THEN [node EXCEPT !.cells[0].key = v]
  ELSE [node EXCEPT !.cells[0].un[2 * j - 1] = v]
set_internal_node_key(node, j, v) ==
  IF j = 0 THEN [node EXCEPT !.cells[0].id = v]
  ELSE [node EXCEPT !.cells[0].un[2 * j] = v]

\* internal_node_child: which word child_num designates, or why the process
\* exits.  "right" is the right_child word, "cell" the child word of the cell.
internal_node_child_ref(node, child_num) ==
  LET num_keys == internal_node_num_keys(node) IN
  IF child_num > num_keys THEN "exit"
  ELSE IF child_num = num_keys
       THEN IF internal_node_right_child(node) = INVALID_PAGE_NUM
            THEN "exit" ELSE "right"
       ELSE IF internal_node_cell_child(node, child_num) = INVALID_PAGE_NUM
            THEN "exit" ELSE "cell"
\* *internal_node_child(node, child_num), read.
internal_node_child(node, child_num) ==
  IF internal_node_child_ref(node, child_num) = "right"
  THEN internal_node_right_child(node)
  ELSE internal_node_cell_child(node, child_num)
\* *internal_node_child(node, child_num) = v.
set_internal_node_child(node, child_num, v) ==
  IF internal_node_child_ref(node, child_num) = "right"
  THEN set_internal_node_right_child(node, v)
  ELSE set_internal_node_cell_child(node, child_num, v)

initialize_leaf_node(node) ==
  set_leaf_node_next_leaf(
    set_leaf_node_num_cells(set_node_root(set_node_type(node, NODE_LEAF), FALSE), 0), 0)
initialize_internal_node(node) ==
  set_internal_node_right_child(
    set_internal_node_num_keys(
      set_node_root(set_node_type(node, NODE_INTERNAL), FALSE), 0), INVALID_PAGE_NUM)

\* The search with `<` for `<=` at line 361.
RECURSIVE FindChildLoopStrict(_, _, _, _)
FindChildLoopStrict(node, key, left, right) ==
  IF left = right THEN left
  ELSE LET mid == (left + right) \div 2 IN
       IF key < internal_node_key(node, mid)
       THEN FindChildLoopStrict(node, key, left, mid)
       ELSE FindChildLoopStrict(node, key, mid + 1, right)

\* Binary search of internal_node_find_child on [left, right).
RECURSIVE FindChildLoop(_, _, _, _)
FindChildLoop(node, key, left, right) ==
  IF left = right THEN left
  ELSE LET mid == (left + right) \div 2 IN
       IF key <= internal_node_key(node, mid)
       THEN FindChildLoop(node, key, left, mid)
       ELSE FindChildLoop(node, key, mid + 1, right)
internal_node_find_child(node, key) ==
  FindChildLoop(node, key, 0, internal_node_num_keys(node))

\* update_internal_node_key with the key written to the first cell whatever
\* the old key.
update_internal_node_key_first(node, old_key, new_key) ==
  set_internal_node_key(node, 0, new_key)

update_internal_node_key(node, old_key, new_key) ==
  set_internal_node_key(node, internal_node_find_child(node, old_key), new_key)

\* Binary search of leaf_node_find on [min_index, one_past_max_index).
RECURSIVE LeafFindLoop(_, _, _, _)
LeafFindLoop(node, key, min_index, one_past_max_index) ==
  IF min_index = one_past_max_index THEN min_index
  ELSE LET index == (min_index + one_past_max_index) \div 2
           key_at_index == leaf_node_key(node, index) IN
       IF key = key_at_index THEN index
       ELSE IF key < key_at_index THEN LeafFindLoop(node, key, min_index, index)
       ELSE LeafFindLoop(node, key, index + 1, one_past_max_index)

(***************************************************************************)
(* The pager.  A machine m is the Table with its Pager and the file:       *)
(*   m.pages       the cache: a function from the resident page numbers    *)
(*   m.num_pages   pager.num_pages                                         *)
(*   m.file_length pager.file_length, measured when the file was opened    *)
(*   m.file        the pages of the file, page n at index n + 1            *)
(*   m.err         "none", or how the process ended: "exit" for            *)
(*                 process::exit(1), "panic" for a Rust panic, "overflow"  *)
(*                 for unbounded recursion, "unmodelled" for a read or     *)
(*                 write of a word of a page the model does not keep       *)
(*                 (NeverUnmodelled: no run of the model gets there)       *)
(*   m.alloc       history: the page numbers get_unused_page_num returned  *)
(*                 to the statement being executed, in call order          *)
(***************************************************************************)
Fail(m, why) == IF m.err = "none" THEN [m EXCEPT !.err = why] ELSE m
Ok(m) == m.err = "none"
Resident(m, n) == n \in DOMAIN m.pages
Put(ps, n, page) == [x \in (DOMAIN ps) \cup {n} |-> IF x = n THEN page ELSE ps[x]]

\* The bytes read_exact delivers for page n of the file.
ReadFilePage(f, n) == IF n + 1 <= Len(f) THEN f[n + 1] ELSE ZeroPage

\* get_page with `>` for `>=` at line 1038: page TABLE_MAX_PAGES is let in.
get_page_inclusive(m, page_num) ==
  IF ~Ok(m) THEN m
  ELSE IF page_num > TABLE_MAX_PAGES THEN Fail(m, "exit")
  ELSE IF Resident(m, page_num) THEN m
  ELSE [m EXCEPT !.pages = Put(@, page_num, ReadFilePage(m.file, page_num)),
                 !.num_pages = IF page_num >= @ THEN page_num + 1 ELSE @]

\* get_page without lines 1078-1080: num_pages does not follow the page.
get_page_uncounted(m, page_num) ==
  IF ~Ok(m) THEN m
  ELSE IF page_num >= TABLE_MAX_PAGES THEN Fail(m, "exit")
  ELSE IF Resident(m, page_num) THEN m
  ELSE [m EXCEPT !.pages = Put(@, page_num, ReadFilePage(m.file, page_num))]

\* get_page that reads the file on a hit too: what the process wrote into a
\* page of the file since it fetched it is lost.
get_page_rereading(m, page_num) ==
  IF ~Ok(m) THEN m
  ELSE IF page_num >= TABLE_MAX_PAGES THEN Fail(m, "exit")
  ELSE LET num_pages == m.file_length \div PAGE_SIZE
           has_partial_page == m.file_length % PAGE_SIZE # 0
           page == IF page_num < num_pages \/ (page_num = num_pages /\ has_partial_page)
                   THEN ReadFilePage(m.file, page_num)
                   ELSE IF Resident(m, page_num) THEN m.pages[page_num]
                   ELSE ZeroPage
       IN [m EXCEPT !.pages = Put(@, page_num, page),
                    !.num_pages = IF page_num >= @ THEN page_num + 1 ELSE @]

get_page(m, page_num) ==
  IF ~Ok(m) THEN m
  ELSE IF page_num >= TABLE_MAX_PAGES THEN Fail(m, "exit")
  ELSE IF Resident(m, page_num) THEN m
  ELSE LET num_pages == m.file_length \div PAGE_SIZE
           has_partial_page == m.file_length % PAGE_SIZE # 0
           page == IF page_num < num_pages \/ (page_num = num_pages /\ has_partial_page)
                   THEN ReadFilePage(m.file, page_num)
                   ELSE ZeroPage
       IN [m EXCEPT !.pages = Put(@, page_num, page),
                    !.num_pages = IF page_num >= @ THEN page_num + 1 ELSE @]

get_unused_page_num(m) == m.num_pages
\* The history of the calls of get_unused_page_num: n was returned.
Allocated(m, n) == IF Ok(m) THEN [m EXCEPT !.alloc = Append(@, n)] ELSE m

\* A write through the reference get_page returned.
SetPage(m, n, page) == [m EXCEPT !.pages[n] = page]

\* get_node_type fails on a type byte other than 0 and 1.
KnownType(node) == node.node_type \in {NODE_INTERNAL, NODE_LEAF}

(***************************************************************************)
(* get_node_max_key: the result is [m, v], the machine after the get_page  *)
(* calls and the key.  The call changes no page, so a chain of right       *)
(* children that comes back to a page of `seen` recurses for ever: the     *)
(* process ends with "overflow".                                           *)
(***************************************************************************)
RECURSIVE MaxKeyRec(_, _, _)
MaxKeyRec(m, page_num, seen) ==
  LET m1 == get_page(m, page_num) IN
  IF ~Ok(m1) THEN [m |-> m1, v |-> 0]
  ELSE LET node == m1.pages[page_num] IN
       IF ~KnownType(node) THEN [m |-> Fail(m1, "panic"), v |-> 0]
       ELSE IF get_node_type(node) = NODE_LEAF
       THEN IF leaf_node_num_cells(node) = 0
            THEN [m |-> Fail(m1, "panic"), v |-> 0]
            ELSE IF leaf_node_num_cells(node) > LEAF_NODE_MAX_CELLS
            THEN [m |-> Fail(m1, "unmodelled"), v |-> 0]
            ELSE [m |-> m1, v |-> leaf_node_key(node, leaf_node_num_cells(node) - 1)]
       ELSE IF page_num \in seen THEN [m |-> Fail(m1, "overflow"), v |-> 0]
       ELSE MaxKeyRec(m1, internal_node_right_child(node), seen \cup {page_num})
get_node_max_key(m, page_num) ==
  IF ~Ok(m) THEN [m |-> m, v |-> 0] ELSE MaxKeyRec(m, page_num, {})

\* The internal view of a node stays within the words the model keeps.
InOverlay(node) == internal_node_num_keys(node) <= INTERNAL_NODE_MAX_CELLS
\* The leaf view of a node stays within the cells the model keeps.
InCells(node) == leaf_node_num_cells(node) <= LEAF_NODE_MAX_CELLS

(***************************************************************************)
(* Search.  A cursor is [m, page_num, cell_num, end_of_table]; m is the    *)
(* table the cursor borrows.                                               *)
(***************************************************************************)
Cursor(m, page_num, cell_num, eot) ==
  [m |-> m, page_num |-> page_num, cell_num |-> cell_num, end_of_table |-> eot]

leaf_node_find(m, page_num, key) ==
  LET m1 == get_page(m, page_num) IN
  IF ~Ok(m1) THEN Cursor(m1, page_num, 0, FALSE)
  ELSE LET node == m1.pages[page_num] IN
       IF ~InCells(node) THEN Cursor(Fail(m1, "unmodelled"), page_num, 0, FALSE)
       ELSE Cursor(m1, page_num,
                   LeafFindLoop(node, key, 0, leaf_node_num_cells(node)), FALSE)

RECURSIVE InternalFindRec(_, _, _, _)
InternalFindRec(m, page_num, key, seen) ==
  LET m1 == get_page(m, page_num) IN
  IF ~Ok(m1) THEN Cursor(m1, page_num, 0, FALSE)
  ELSE LET node == m1.pages[page_num] IN
       IF ~InOverlay(node) THEN Cursor(Fail(m1, "unmodelled"), page_num, 0, FALSE)
       ELSE LET child_index == internal_node_find_child(node, key) IN
       IF internal_node_child_ref(node, child_index) = "exit"
       THEN Cursor(Fail(m1, "exit"), page_num, 0, FALSE)
       ELSE LET child_page_num == internal_node_child(node, child_index)
                m2 == get_page(m1, child_page_num) IN
            IF ~Ok(m2) THEN Cursor(m2, page_num, 0, FALSE)
            ELSE LET child == m2.pages[child_page_num] IN
                 IF ~KnownType(child) THEN Cursor(Fail(m2, "panic"), page_num, 0, FALSE)
                 ELSE IF get_node_type(child) = NODE_LEAF
                 THEN leaf_node_find(m2, child_page_num, key)
                 ELSE IF child_page_num \in seen
                 THEN Cursor(Fail(m2, "overflow"), page_num, 0, FALSE)
                 ELSE InternalFindRec(m2, child_page_num, key, seen \cup {child_page_num})
internal_node_find(m, page_num, key) ==
  InternalFindRec(m, page_num, key, {page_num})

root_page_num == 0

table_find(m, key) ==
  LET m1 == get_page(m, root_page_num) IN
  IF ~Ok(m1) THEN Cursor(m1, root_page_num, 0, FALSE)
  ELSE LET root_node == m1.pages[root_page_num] IN
       IF ~KnownType(root_node) THEN Cursor(Fail(m1, "panic"), root_page_num, 0, FALSE)
       ELSE IF get_node_type(root_node) = NODE_LEAF
       THEN leaf_node_find(m1, root_page_num, key)
       ELSE internal_node_find(m1, root_page_num, key)

(***************************************************************************)
(* Insertion.  The operators below take a machine and give the machine     *)
(* after the call.  Once m.err is set the process has ended: every later   *)
(* step leaves the machine as it is.                                       *)
(***************************************************************************)
\* The page a reference obtained from get_page points to.
Page(m, n) == IF Resident(m, n) THEN m.pages[n] ELSE ZeroPage
\* A write through such a reference that also writes the page to the file.
UpdWriteThrough(m, n, page) ==
  IF Ok(m) /\ Resident(m, n)
  THEN [m EXCEPT !.pages[n] = page,
                 !.file = [i \in 1..(IF n + 1 > Len(@) THEN n + 1 ELSE Len(@)) |->
                             IF i = n + 1 THEN page
                             ELSE IF i <= Len(@) THEN @[i] ELSE ZeroPage]]
  ELSE m
\* A write through such a reference.
Upd(m, n, page) == IF Ok(m) /\ Resident(m, n) THEN SetPage(m, n, page) ELSE m
\* The process ends with `why` when `cond` holds.
FailIf(m, cond, why) == IF Ok(m) /\ cond THEN Fail(m, why) ELSE m

\* A write through get_page(page_num): the whole page, the parent field, the
\* right child, the next leaf, initialize_internal_node.
WritePage(m, page_num, page) ==
  IF ~Ok(m) THEN m ELSE
  LET a == get_page(m, page_num) IN Upd(a, page_num, page)
WriteParent(m, page_num, parent) ==
  IF ~Ok(m) THEN m ELSE
  LET a == get_page(m, page_num)
  IN Upd(a, page_num, set_node_parent(Page(a, page_num), parent))
WriteRightChild(m, page_num, right_child) ==
  IF ~Ok(m) THEN m ELSE
  LET a == get_page(m, page_num)
  IN Upd(a, page_num, set_internal_node_right_child(Page(a, page_num), right_child))
WriteNextLeaf(m, page_num, next_leaf) ==
  IF ~Ok(m) THEN m ELSE
  LET a == get_page(m, page_num)
  IN Upd(a, page_num, set_leaf_node_next_leaf(Page(a, page_num), next_leaf))
WriteInternalNode(m, page_num) ==
  IF ~Ok(m) THEN m ELSE
  LET a == get_page(m, page_num)
  IN Upd(a, page_num, initialize_internal_node(Page(a, page_num)))

RECURSIVE internal_node_insert(_, _, _, _)
RECURSIVE internal_node_split_and_insert(_, _, _, _)

\* create_new_root, lines 922-931: the parent pointer of the child in cell i
\* of the relocated root; m is the machine after get_page(left_child_page_num).
ReparentCell(m, left_child_page_num, i) ==
  LET left_child == Page(m, left_child_page_num) IN
  IF ~Ok(m) THEN m
  ELSE IF internal_node_child_ref(left_child, i) = "exit" THEN Fail(m, "exit")
  ELSE WriteParent(m, internal_node_child(left_child, i), left_child_page_num)
RECURSIVE ReparentCells(_, _, _, _)
ReparentCells(m, left_child_page_num, i, num_keys) ==
  IF ~Ok(m) \/ i >= num_keys THEN m
  ELSE ReparentCells(
         ReparentCell(get_page(m, left_child_page_num), left_child_page_num, i),
         left_child_page_num, i + 1, num_keys)

\* create_new_root_copy without the set_node_root(left_child, false) of line
\* 909: the copy of the old root stays marked as the root.
create_new_root_copy_marked(m, right_child_page_num, left_child_page_num, root_data) ==
  IF ~Ok(m) THEN m ELSE
  LET m2 == FailIf(m, ~KnownType(root_data), "panic") IN
  WritePage(IF get_node_type(root_data) = NODE_INTERNAL
            THEN WriteInternalNode(WriteInternalNode(m2, right_child_page_num),
                                   left_child_page_num)
            ELSE m2,
            left_child_page_num, root_data)

\* lines 889-910: root_data is the copy of the root, m the machine after
\* get_page(root_page_num).
create_new_root_copy(m, right_child_page_num, left_child_page_num, root_data) ==
  IF ~Ok(m) THEN m ELSE
  LET m2 == FailIf(m, ~KnownType(root_data), "panic") IN
  WritePage(IF get_node_type(root_data) = NODE_INTERNAL
            THEN WriteInternalNode(WriteInternalNode(m2, right_child_page_num),
                                   left_child_page_num)
            ELSE m2,
            left_child_page_num, set_node_root(root_data, FALSE))

\* lines 914-938
create_new_root_reparent(m, left_child_page_num) ==
  IF ~Ok(m) THEN m ELSE
  LET a == get_page(m, left_child_page_num)
      left_child == Page(a, left_child_page_num)
      right_page_num == internal_node_right_child(left_child)
      c == ReparentCells(FailIf(a, ~InOverlay(left_child), "unmodelled"),
                         left_child_page_num, 0, internal_node_num_keys(left_child))
  IN IF right_page_num # INVALID_PAGE_NUM
     THEN WriteParent(c, right_page_num, left_child_page_num)
     ELSE c

\* create_new_root_fill with the two children exchanged: cell 0 gets the
\* right child, right_child the left child.
create_new_root_fill_swapped(lmk, right_child_page_num, left_child_page_num) ==
  IF ~Ok(lmk.m) THEN lmk.m ELSE
  LET m6 == get_page(lmk.m, root_page_num)
      root == set_internal_node_num_keys(
                set_node_root(initialize_internal_node(Page(m6, root_page_num)), TRUE), 1)
  IN IF ~Ok(m6) THEN m6
     ELSE Upd(m6, root_page_num,
              set_internal_node_right_child(
                set_internal_node_key(
                  set_internal_node_child(root, 0, right_child_page_num), 0, lmk.v),
                left_child_page_num))

\* lines 945-953: lmk is what get_node_max_key(left_child_page_num) returned.
create_new_root_fill(lmk, right_child_page_num, left_child_page_num) ==
  IF ~Ok(lmk.m) THEN lmk.m ELSE
  LET m6 == get_page(lmk.m, root_page_num)
      root == set_internal_node_num_keys(
                set_node_root(initialize_internal_node(Page(m6, root_page_num)), TRUE), 1)
  IN IF ~Ok(m6) THEN m6
     ELSE IF internal_node_child_ref(root, 0) = "exit" THEN Fail(m6, "exit")
     ELSE Upd(m6, root_page_num,
              set_internal_node_right_child(
                set_internal_node_key(
                  set_internal_node_child(root, 0, left_child_page_num), 0, lmk.v),
                right_child_page_num))

\* lines 889-964; m is the machine after get_page(root_page_num).
create_new_root_body(m, right_child_page_num, left_child_page_num) ==
  IF ~Ok(m) THEN m ELSE
  LET root_data == Page(m, root_page_num)
      m4 == create_new_root_copy(m, right_child_page_num, left_child_page_num, root_data)
      m5 == IF get_node_type(root_data) = NODE_INTERNAL
            THEN create_new_root_reparent(m4, left_child_page_num)
            ELSE m4
      m8 == create_new_root_fill(get_node_max_key(m5, left_child_page_num),
                                 right_child_page_num, left_child_page_num)
  IN WriteParent(WriteParent(m8, left_child_page_num, root_page_num),
                 right_child_page_num, root_page_num)

create_new_root(m, right_child_page_num) ==
  IF ~Ok(m) THEN m
  ELSE create_new_root_body(
         get_page(Allocated(m, get_unused_page_num(m)), root_page_num),
         right_child_page_num, get_unused_page_num(m))

\* internal_node_insert, lines 431-436: cells [index, num_keys) move one
\* place right, highest first.
RECURSIVE ShiftInternalCells(_, _, _)
ShiftInternalCells(node, i, index) ==
  IF i < index THEN node
  ELSE ShiftInternalCells(
         set_internal_node_key(
           set_internal_node_cell_child(node, i + 1, internal_node_cell_child(node, i)),
           i + 1, internal_node_key(node, i)),
         i - 1, index)

\* lines 421-443: m is the machine after get_page(parent_page_num).
internal_node_insert_cell(m, parent_page_num, child_page_num, child_max_key, right_max_key, original_num_keys, index) ==
  LET parent == Page(m, parent_page_num)
      right_child_page_num == internal_node_right_child(parent)
      shifted == ShiftInternalCells(parent, original_num_keys - 1, index)
  IN
  IF ~Ok(m) THEN m
  ELSE IF child_max_key > right_max_key
  THEN \* internal_node_child(parent, original_num_keys) is the right child
       Upd(m, parent_page_num,
           set_internal_node_num_keys(
             set_internal_node_right_child(
               set_internal_node_key(
                 set_internal_node_child(parent, original_num_keys, right_child_page_num),
                 original_num_keys, right_max_key),
               child_page_num),
             original_num_keys + 1))
  ELSE IF internal_node_child_ref(shifted, index) = "exit" THEN Fail(m, "exit")
  ELSE Upd(m, parent_page_num,
           set_internal_node_num_keys(
             set_internal_node_key(
               set_internal_node_child(shifted, index, child_page_num),
               index, child_max_key),
             original_num_keys + 1))

\* lines 412-418: rm is what get_node_max_key(right_child_page_num) returned.
internal_node_insert_right(rm, parent_page_num, child_page_num, child_max_key, original_num_keys, index) ==
  IF ~Ok(rm.m) THEN rm.m ELSE
  internal_node_insert_cell(get_page(rm.m, parent_page_num), parent_page_num,
                            child_page_num, child_max_key, rm.v, original_num_keys, index)

\* lines 391-418: m is the machine after get_page(parent_page_num).
internal_node_insert_parent(m, parent_page_num, child_page_num, child_max_key, fuel) ==
  LET parent == Page(m, parent_page_num)
      original_num_keys == internal_node_num_keys(parent)
      right_child_page_num == internal_node_right_child(parent)
  IN
  IF ~Ok(m) THEN m
  ELSE IF fuel = 0 THEN Fail(m, "overflow")
  ELSE IF original_num_keys >= INTERNAL_NODE_MAX_CELLS
  THEN internal_node_split_and_insert(m, parent_page_num, child_page_num, fuel - 1)
  ELSE IF right_child_page_num = INVALID_PAGE_NUM
  THEN Upd(m, parent_page_num, set_internal_node_right_child(parent, child_page_num))
  ELSE internal_node_insert_right(
         get_node_max_key(m, right_child_page_num), parent_page_num, child_page_num,
         child_max_key, original_num_keys,
         internal_node_find_child(parent, child_max_key))

\* line 388: cm is what get_node_max_key(child_page_num) returned.
internal_node_insert_child(cm, parent_page_num, child_page_num, fuel) ==
  IF ~Ok(cm.m) THEN cm.m ELSE
  internal_node_insert_parent(get_page(cm.m, parent_page_num), parent_page_num,
                              child_page_num, cm.v, fuel)

\* fuel bounds the depth of the recursion through
\* internal_node_split_and_insert, which takes a new page at every level.
internal_node_insert(m, parent_page_num, child_page_num, fuel) ==
  IF ~Ok(m) THEN m
  ELSE internal_node_insert_child(get_node_max_key(m, child_page_num),
                                  parent_page_num, child_page_num, fuel)

\* internal_node_split_and_insert, lines 807-824: each collected child goes
\* into the new node, and the old node loses one key.
DecrementNumKeys(m, page_num) ==
  IF ~Ok(m) THEN m ELSE
  LET a == get_page(m, page_num)
      node == Page(a, page_num)
  IN Upd(a, page_num, set_internal_node_num_keys(node, internal_node_num_keys(node) - 1))
RECURSIVE MoveKeys(_, _, _, _, _)
MoveKeys(m, keys_to_move, new_page_num, actual_old_page_num, fuel) ==
  IF ~Ok(m) \/ keys_to_move = <<>> THEN m
  ELSE MoveKeys(
         DecrementNumKeys(
           WriteParent(
             internal_node_insert(m, new_page_num, Head(keys_to_move), fuel),
             Head(keys_to_move), new_page_num),
           actual_old_page_num),
         Tail(keys_to_move), new_page_num, actual_old_page_num, fuel)

\* lines 797-802: the cells (INTERNAL_NODE_MAX_CELLS / 2 + 1)..(MAX - 1) of the
\* old node, highest first; the result is [seq, bad], bad when
\* internal_node_child exits on one of them.
RECURSIVE CollectKeys(_, _, _)
CollectKeys(old_node, i, num_keys) ==
  IF i < INTERNAL_NODE_MAX_CELLS \div 2 + 1 THEN [seq |-> <<>>, bad |-> FALSE]
  ELSE LET rest == CollectKeys(old_node, i - 1, num_keys) IN
       IF i < num_keys
       THEN IF internal_node_child_ref(old_node, i) = "exit"
            THEN [seq |-> <<>>, bad |-> TRUE]
            ELSE [seq |-> <<internal_node_child(old_node, i)>> \o rest.seq,
                  bad |-> rest.bad]
       ELSE rest

\* The locals of internal_node_split_and_insert travel in a record l; l.m is
\* the machine.  lines 719-734:
split_locals(m, parent_page_num, child_page_num, fuel) ==
  LET om == get_node_max_key(m, parent_page_num)
      chm == get_node_max_key(om.m, child_page_num)
      m1 == get_page(Allocated(chm.m, get_unused_page_num(chm.m)), parent_page_num)
  IN [m |-> m1, old_page_num |-> parent_page_num, child_page_num |-> child_page_num,
      fuel |-> fuel, old_max |-> om.v, child_max |-> chm.v,
      new_page_num |-> get_unused_page_num(chm.m),
      splitting_root |-> is_node_root(Page(m1, parent_page_num)),
      actual_old_page_num |-> parent_page_num, parent_page_num |-> parent_page_num]

\* lines 736-762
split_new_node(l) ==
  IF ~Ok(l.m) THEN l ELSE
  IF l.splitting_root
  THEN LET b == get_page(create_new_root(l.m, l.new_page_num), root_page_num)
           parent == Page(b, root_page_num)
       IN [l EXCEPT !.m = FailIf(b, internal_node_child_ref(parent, 0) = "exit", "exit"),
                    !.actual_old_page_num = internal_node_child(parent, 0),
                    !.parent_page_num = root_page_num]
  ELSE LET b == get_page(WriteInternalNode(l.m, l.new_page_num), l.old_page_num)
       IN [l EXCEPT !.m = b,
                    !.actual_old_page_num = l.old_page_num,
                    !.parent_page_num = node_parent(Page(b, l.old_page_num))]

\* lines 765-786
split_move_right_child(l) ==
  IF ~Ok(l.m) THEN l ELSE
  LET m3 == get_page(l.m, l.actual_old_page_num)
      cur_page_num == internal_node_right_child(Page(m3, l.actual_old_page_num))
  IN [l EXCEPT !.m =
        WriteRightChild(
          WriteParent(internal_node_insert(m3, l.new_page_num, cur_page_num, l.fuel),
                      cur_page_num, l.new_page_num),
          l.actual_old_page_num, INVALID_PAGE_NUM)]

\* lines 790-824
split_move_keys(l) ==
  IF ~Ok(l.m) THEN l ELSE
  LET m7 == get_page(l.m, l.actual_old_page_num)
      old_node == Page(m7, l.actual_old_page_num)
      collected == CollectKeys(old_node, INTERNAL_NODE_MAX_CELLS - 1,
                               internal_node_num_keys(old_node))
  IN [l EXCEPT !.m =
        MoveKeys(FailIf(FailIf(m7, ~InOverlay(old_node), "unmodelled"),
                        collected.bad, "exit"),
                 collected.seq, l.new_page_num, l.actual_old_page_num, l.fuel)]

\* lines 827-835
split_set_right_child(l) ==
  IF ~Ok(l.m) THEN l ELSE
  LET m10 == get_page(l.m, l.actual_old_page_num)
      old_node == Page(m10, l.actual_old_page_num)
      num_keys == internal_node_num_keys(old_node)
  IN [l EXCEPT !.m =
        IF ~Ok(m10) THEN m10
        ELSE IF num_keys = 0 THEN Fail(m10, "exit")
        ELSE IF internal_node_child_ref(old_node, num_keys - 1) = "exit"
        THEN Fail(m10, "exit")
        ELSE Upd(m10, l.actual_old_page_num,
                 set_internal_node_num_keys(
                   set_internal_node_right_child(
                     old_node, internal_node_child(old_node, num_keys - 1)),
                   num_keys - 1))]

\* lines 838-854
split_insert_child(l) ==
  IF ~Ok(l.m) THEN l ELSE
  LET mas == get_node_max_key(l.m, l.actual_old_page_num)
      destination_page_num ==
        IF l.child_max < mas.v THEN l.actual_old_page_num ELSE l.new_page_num
  IN [l EXCEPT !.m =
        WriteParent(
          internal_node_insert(mas.m, destination_page_num, l.child_page_num, l.fuel),
          l.child_page_num, destination_page_num)]

\* lines 857-862: nom is what get_node_max_key(actual_old_page_num) returned.
split_update_parent_key(l, nom) ==
  IF ~Ok(nom.m) THEN nom.m ELSE
  LET m15 == get_page(nom.m, l.parent_page_num)
      parent == Page(m15, l.parent_page_num)
  IN IF ~Ok(m15) THEN m15
     ELSE IF ~InOverlay(parent) THEN Fail(m15, "unmodelled")
     ELSE Upd(m15, l.parent_page_num,
              update_internal_node_key(parent, l.old_max, nom.v))

\* lines 866-879: m is the machine after get_page(actual_old_page_num).
split_insert_new_node(l, m) ==
  IF ~Ok(m) THEN m ELSE
  LET parent_of_old == node_parent(Page(m, l.actual_old_page_num))
  IN WriteParent(internal_node_insert(m, parent_of_old, l.new_page_num, l.fuel),
                 l.new_page_num, parent_of_old)

\* lines 856-880
split_finish(l) ==
  IF ~Ok(l.m) THEN l.m ELSE
  IF l.splitting_root
  THEN split_update_parent_key(l, get_node_max_key(l.m, l.actual_old_page_num))
  ELSE split_insert_new_node(
         l, get_page(split_update_parent_key(
                       l, get_node_max_key(l.m, l.actual_old_page_num)),
                     l.actual_old_page_num))

internal_node_split_and_insert(m, parent_page_num, child_page_num, fuel) ==
  IF ~Ok(m) THEN m
  ELSE split_finish(
         split_insert_child(
           split_set_right_child(
             split_move_keys(
               split_move_right_child(
                 split_new_node(
                   split_locals(m, parent_page_num, child_page_num, fuel)))))))

(***************************************************************************)
(* Leaf insertion.  A row is [id, un, rest]: the id, the first OverlayWords*)
(* words of the username, and a tag for the remaining username and email   *)
(* bytes.                                                                  *)
(***************************************************************************)
\* The cell leaf_node_insert and the split write: the key, then serialize_row.
NewCell(key, value) ==
  [key |-> key, id |-> value.id, un |-> value.un, rest |-> value.rest]

\* leaf_node_split_and_insert, lines 608-628: the loop over i in
\* 0..LEAF_NODE_MAX_CELLS-1 that gathers the cells.
\* The gathering loop without lines 620-623: the old cell at the slot of the
\* new one is not taken.
RECURSIVE GatherCellsDropping(_, _, _, _)
GatherCellsDropping(old_node, cell_num, new_cell, i) ==
  IF i >= LEAF_NODE_MAX_CELLS THEN <<>>
  ELSE LET here ==
             IF i = cell_num THEN <<new_cell>>
             ELSE IF i < leaf_node_num_cells(old_node)
                  THEN <<leaf_node_cell(old_node, i)>>
                  ELSE <<>>
       IN here \o GatherCellsDropping(old_node, cell_num, new_cell, i + 1)

RECURSIVE GatherCells(_, _, _, _)
GatherCells(old_node, cell_num, new_cell, i) ==
  IF i >= LEAF_NODE_MAX_CELLS THEN <<>>
  ELSE LET here ==
             IF i = cell_num
             THEN IF i < leaf_node_num_cells(old_node)
                  THEN <<new_cell, leaf_node_cell(old_node, i)>>
                  ELSE <<new_cell>>
             ELSE IF i < leaf_node_num_cells(old_node)
                  THEN <<leaf_node_cell(old_node, i)>>
                  ELSE <<>>
       IN here \o GatherCells(old_node, cell_num, new_cell, i + 1)
\* lines 601-637
AllCells(old_node, cell_num, new_cell) ==
  GatherCells(old_node, cell_num, new_cell, 0)
    \o (IF cell_num >= leaf_node_num_cells(old_node) THEN <<new_cell>> ELSE <<>>)

\* lines 645-650 and 659-665: count cells of all_cells, from index first,
\* copied to cells 0.. of node.
CopyCells(node, all_cells, first, count) ==
  [node EXCEPT !.cells =
     [i \in DOMAIN node.cells |->
        IF i < count /\ first + i < Len(all_cells)
        THEN all_cells[first + i + 1] ELSE node.cells[i]]]

\* The linking without line 577: the new leaf keeps the next_leaf 0 of
\* initialize_leaf_node.
leaf_split_link_last(m, old_page_num, new_page_num) ==
  IF ~Ok(m) THEN m ELSE
  LET a == get_page(m, new_page_num)
      m2 == Upd(a, new_page_num, initialize_leaf_node(Page(a, new_page_num)))
      m3 == get_page(m2, old_page_num)
  IN WriteNextLeaf(
       WriteParent(m3, new_page_num, node_parent(Page(m3, old_page_num))),
       old_page_num, new_page_num)

\* lines 566-598: m is the machine after get_page(old_page_num).
leaf_split_link(m, old_page_num, new_page_num) ==
  IF ~Ok(m) THEN m ELSE
  LET a == get_page(m, new_page_num)
      m2 == Upd(a, new_page_num,
                set_leaf_node_next_leaf(
                  initialize_leaf_node(Page(a, new_page_num)),
                  get_leaf_node_next_leaf(Page(m, old_page_num))))
      m3 == get_page(m2, old_page_num)
  IN WriteNextLeaf(
       WriteParent(m3, new_page_num, node_parent(Page(m3, old_page_num))),
       old_page_num, new_page_num)

\* lines 640-667: m is the machine after get_page(old_page_num).
leaf_split_distribute(m, old_page_num, new_page_num, all_cells) ==
  IF ~Ok(m) THEN m ELSE
  LET a == get_page(
             Upd(m, old_page_num,
                 set_leaf_node_num_cells(
                   CopyCells(Page(m, old_page_num), all_cells, 0,
                             LEAF_NODE_LEFT_SPLIT_COUNT),
                   LEAF_NODE_LEFT_SPLIT_COUNT)),
             new_page_num)
  IN Upd(a, new_page_num,
         set_leaf_node_num_cells(
           CopyCells(Page(a, new_page_num), all_cells,
                     LEAF_NODE_LEFT_SPLIT_COUNT, LEAF_NODE_RIGHT_SPLIT_COUNT),
           LEAF_NODE_RIGHT_SPLIT_COUNT))

\* lines 601-667: m is the machine after get_page(old_page_num).
leaf_split_cells(m, old_page_num, new_page_num, cell_num, new_cell) ==
  IF ~Ok(m) THEN m ELSE
  leaf_split_distribute(get_page(m, old_page_num), old_page_num, new_page_num,
                        AllCells(Page(m, old_page_num), cell_num, new_cell))

\* lines 694-699: nm is what the second get_node_max_key(old_page_num)
\* returned.
leaf_split_update_key(nm, old_max, parent_page_num) ==
  IF ~Ok(nm.m) THEN nm.m ELSE
  LET m11 == get_page(nm.m, parent_page_num)
      parent == Page(m11, parent_page_num)
  IN IF ~Ok(m11) THEN m11
     ELSE IF ~InOverlay(parent) THEN Fail(m11, "unmodelled")
     ELSE Upd(m11, parent_page_num,
              update_internal_node_key(parent, old_max, nm.v))

\* lines 680-702: om is what the first get_node_max_key(old_page_num)
\* returned, m the machine after the get_page(old_page_num) that follows.
leaf_split_parent(m, om, old_page_num, new_page_num) ==
  IF ~Ok(m) THEN m ELSE
  internal_node_insert(
    leaf_split_update_key(get_node_max_key(m, old_page_num), om.v,
                          node_parent(Page(m, old_page_num))),
    node_parent(Page(m, old_page_num)), new_page_num, TABLE_MAX_PAGES)
leaf_split_not_root(om, old_page_num, new_page_num) ==
  IF ~Ok(om.m) THEN om.m ELSE
  leaf_split_parent(get_page(om.m, old_page_num), om, old_page_num, new_page_num)

\* lines 670-703: m is the machine after get_page(old_page_num).
leaf_split_finish(m, old_page_num, new_page_num) ==
  IF ~Ok(m) THEN m
  ELSE IF is_node_root(Page(m, old_page_num)) THEN create_new_root(m, new_page_num)
  ELSE leaf_split_not_root(get_node_max_key(m, old_page_num), old_page_num, new_page_num)

leaf_split_steps(m, old_page_num, new_page_num, cell_num, new_cell) ==
  leaf_split_finish(
    get_page(
      leaf_split_cells(
        get_page(leaf_split_link(get_page(m, old_page_num), old_page_num, new_page_num),
                 old_page_num),
        old_page_num, new_page_num, cell_num, new_cell),
      old_page_num),
    old_page_num, new_page_num)

leaf_node_split_and_insert(cursor, key, value) ==
  leaf_split_steps(Allocated(cursor.m, get_unused_page_num(cursor.m)),
                   cursor.page_num, get_unused_page_num(cursor.m),
                   cursor.cell_num, NewCell(key, value))

\* The shift of leaf_node_insert done lowest cell first: every cell is
\* overwritten before it is moved, so cell cell_num ends up in all of them.
ShiftLeafCellsLowestFirst(node, cell_num, num_cells) ==
  [node EXCEPT !.cells =
     [i \in DOMAIN node.cells |->
        IF i > cell_num /\ i <= num_cells THEN node.cells[cell_num] ELSE node.cells[i]]]

\* leaf_node_insert, lines 531-543: cells [cell_num, num_cells) move one
\* place right, highest first.
\* The shift of leaf_node_insert that stops one cell early: the last cell of
\* the leaf is not moved.
ShiftLeafCellsShort(node, cell_num, num_cells) ==
  [node EXCEPT !.cells =
     [i \in DOMAIN node.cells |->
        IF i > cell_num /\ i < num_cells THEN node.cells[i - 1] ELSE node.cells[i]]]

ShiftLeafCells(node, cell_num, num_cells) ==
  [node EXCEPT !.cells =
     [i \in DOMAIN node.cells |->
        IF i > cell_num /\ i <= num_cells THEN node.cells[i - 1] ELSE node.cells[i]]]

\* leaf_node_insert without the test of lines 524-528: a full leaf takes the
\* cell like any other, and its num_cells goes past LEAF_NODE_MAX_CELLS.
leaf_node_insert_at_unbounded(m, cursor, key, value) ==
  LET node == Page(m, cursor.page_num)
      num_cells == leaf_node_num_cells(node)
      shifted == IF cursor.cell_num < num_cells
                 THEN ShiftLeafCells(node, cursor.cell_num, num_cells)
                 ELSE node
  IN
  IF ~Ok(m) THEN m
  ELSE IF num_cells > LEAF_NODE_MAX_CELLS THEN Fail(m, "unmodelled")
  ELSE Upd(m, cursor.page_num,
           IF cursor.cell_num < LEAF_NODE_MAX_CELLS
           THEN set_leaf_node_cell(set_leaf_node_num_cells(shifted, num_cells + 1),
                                   cursor.cell_num, NewCell(key, value))
           ELSE set_leaf_node_num_cells(shifted, num_cells + 1))

\* lines 519-556: m is the machine after get_page(cursor.page_num).
leaf_node_insert_at(m, cursor, key, value) ==
  LET node == Page(m, cursor.page_num)
      num_cells == leaf_node_num_cells(node)
  IN
  IF ~Ok(m) THEN m
  ELSE IF num_cells > LEAF_NODE_MAX_CELLS THEN Fail(m, "unmodelled")
  ELSE IF num_cells >= LEAF_NODE_MAX_CELLS
  THEN leaf_node_split_and_insert([cursor EXCEPT !.m = m], key, value)
  ELSE Upd(m, cursor.page_num,
           set_leaf_node_cell(
             set_leaf_node_num_cells(
               IF cursor.cell_num < num_cells
               THEN ShiftLeafCells(node, cursor.cell_num, num_cells)
               ELSE node,
               num_cells + 1),
             cursor.cell_num, NewCell(key, value)))
leaf_node_insert(cursor, key, value) ==
  leaf_node_insert_at(get_page(cursor.m, cursor.page_num), cursor, key, value)

\* execute_insert, lines 1461-1486: cursor is what table_find returned, m the
\* machine after get_page(cursor.page_num).  The result is [m, result],
\* result one of the ExecuteResult values, or "Abort" when the process died.
execute_insert_done(m) == [m |-> m, result |-> IF Ok(m) THEN "Success" ELSE "Abort"]
\* execute_insert with the check of lines 1472-1475 in force: a full leaf is
\* answered with TableFull.
execute_insert_at_checked(m, cursor, row_to_insert) ==
  LET node == Page(m, cursor.page_num) IN
  IF ~Ok(m) THEN [m |-> m, result |-> "Abort"]
  ELSE IF ~Resident(m, cursor.page_num) THEN [m |-> m, result |-> "TableFull"]
  ELSE IF leaf_node_num_cells(node) >= LEAF_NODE_MAX_CELLS
  THEN [m |-> m, result |-> "TableFull"]
  ELSE IF cursor.cell_num < leaf_node_num_cells(node)
          /\ leaf_node_key(node, cursor.cell_num) = row_to_insert.id
  THEN [m |-> m, result |-> "DuplicateKey"]
  ELSE execute_insert_done(
         leaf_node_insert([cursor EXCEPT !.m = m], row_to_insert.id, row_to_insert))
execute_insert_at(m, cursor, row_to_insert) ==
  LET node == Page(m, cursor.page_num) IN
  IF ~Ok(m) THEN [m |-> m, result |-> "Abort"]
  \* line 1466: get_page returned None
  ELSE IF ~Resident(m, cursor.page_num) THEN [m |-> m, result |-> "TableFull"]
  ELSE IF cursor.cell_num < leaf_node_num_cells(node)
          /\ leaf_node_key(node, cursor.cell_num) = row_to_insert.id
  THEN [m |-> m, result |-> "DuplicateKey"]
  ELSE execute_insert_done(
         leaf_node_insert([cursor EXCEPT !.m = m], row_to_insert.id, row_to_insert))
execute_insert_found(cursor, row_to_insert) ==
  IF ~Ok(cursor.m) THEN [m |-> cursor.m, result |-> "Abort"] ELSE
  execute_insert_at(get_page(cursor.m, cursor.page_num), cursor, row_to_insert)
execute_insert(m, row_to_insert) ==
  execute_insert_found(table_find(m, row_to_insert.id), row_to_insert)

(***************************************************************************)
(* The scan cursor and execute_select.                                     *)
(***************************************************************************)
table_start(m) ==
  LET page_num == 0
      m1 == get_page(m, page_num)
      num_cells == leaf_node_num_cells(Page(m1, page_num))
  IN Cursor(m1, page_num, 0, num_cells = 0)

\* cursor_value: [m, ok, row]; ok is FALSE when the slice of the row does
\* not lie in the page (the program panics).
cursor_value(cursor) ==
  LET m1 == get_page(cursor.m, cursor.page_num)
      inside == LEAF_NODE_HEADER_SIZE + cursor.cell_num * LEAF_NODE_CELL_SIZE
                  + LEAF_NODE_CELL_SIZE <= PAGE_SIZE
  IN [m |-> FailIf(m1, ~inside, "panic"),
      row |-> IF inside /\ cursor.cell_num < LEAF_NODE_MAX_CELLS
              THEN leaf_node_value(Page(m1, cursor.page_num), cursor.cell_num)
              ELSE [id |-> 0, un |-> ZeroName, rest |-> 0]]

\* cursor_advance that does not look at next_leaf: the end of a leaf is the
\* end of the table.
cursor_advance_staying(cursor) ==
  LET m1 == get_page(cursor.m, cursor.page_num)
      node == Page(m1, cursor.page_num)
      cell_num == cursor.cell_num + 1
  IN
  IF ~Ok(m1) THEN [cursor EXCEPT !.m = m1]
  ELSE Cursor(m1, cursor.page_num, cell_num, cell_num >= leaf_node_num_cells(node))

\* cursor_advance that records in the leaf it leaves the cell it stopped at
\* (in the parent field of the node).
cursor_advance_marking(cursor) ==
  LET m1 == get_page(cursor.m, cursor.page_num)
      node == Page(m1, cursor.page_num)
      cell_num == cursor.cell_num + 1
      num_cells == leaf_node_num_cells(node)
      next_page_num == get_leaf_node_next_leaf(node)
      m2 == Upd(m1, cursor.page_num, set_node_parent(node, cell_num))
  IN
  IF ~Ok(m1) THEN [cursor EXCEPT !.m = m1]
  ELSE IF cell_num >= num_cells
  THEN IF next_page_num = 0
       THEN Cursor(m2, cursor.page_num, cell_num, TRUE)
       ELSE Cursor(m2, next_page_num, 0, FALSE)
  ELSE Cursor(m1, cursor.page_num, cell_num, FALSE)

\* cursor_advance that keeps page_num at the end of a leaf with a next
\* leaf: cell_num goes back to 0 on the same page.
cursor_advance_wrapping(cursor) ==
  LET m1 == get_page(cursor.m, cursor.page_num)
      node == Page(m1, cursor.page_num)
      cell_num == cursor.cell_num + 1
      num_cells == leaf_node_num_cells(node)
      next_page_num == get_leaf_node_next_leaf(node)
  IN
  IF ~Ok(m1) THEN [cursor EXCEPT !.m = m1]
  ELSE IF cell_num >= num_cells
  THEN IF next_page_num = 0
       THEN Cursor(m1, cursor.page_num, cell_num, TRUE)
       ELSE Cursor(m1, cursor.page_num, 0, FALSE)
  ELSE Cursor(m1, cursor.page_num, cell_num, FALSE)

cursor_advance(cursor) ==
  LET m1 == get_page(cursor.m, cursor.page_num)
      node == Page(m1, cursor.page_num)
      cell_num == cursor.cell_num + 1
      num_cells == leaf_node_num_cells(node)
      next_page_num == get_leaf_node_next_leaf(node)
  IN
  IF ~Ok(m1) THEN [cursor EXCEPT !.m = m1]
  ELSE IF cell_num >= num_cells
  THEN IF next_page_num = 0
       THEN Cursor(m1, cursor.page_num, cell_num, TRUE)
       ELSE Cursor(m1, next_page_num, 0, FALSE)
  ELSE Cursor(m1, cursor.page_num, cell_num, FALSE)

\* The loop of execute_select: [m, out], out the rows printed so far.  No
\* step of the loop writes to a page, so a scan that comes back to a position
\* it has been at repeats from there for ever: the model ends it with
\* "diverges".
RECURSIVE SelectLoop(_, _, _)
SelectLoop(cursor, out, visited) ==
  LET pos == <<cursor.page_num, cursor.cell_num>> IN
  IF ~Ok(cursor.m) \/ cursor.end_of_table THEN [m |-> cursor.m, out |-> out]
  ELSE IF pos \in visited THEN [m |-> Fail(cursor.m, "diverges"), out |-> out]
  ELSE LET cv == cursor_value(cursor)
           c1 == cursor_advance([cursor EXCEPT !.m = cv.m])
       IN IF ~Ok(cv.m) THEN [m |-> cv.m, out |-> out]
          ELSE SelectLoop(c1, Append(out, cv.row), visited \cup {pos})

execute_select(m) == SelectLoop(table_start(m), <<>>, {})

(***************************************************************************)
(* print_tree: [m, out], out the lines printed, each <<indentation level,  *)
(* kind, number>>.  A node collects its keys and children before it prints *)
(* anything.  No step writes to a page, so a walk that comes back to a     *)
(* node of `path` (the nodes above the one being printed) recurses for     *)
(* ever: the process ends with "overflow".                                 *)
(***************************************************************************)
LeafLines(node, level) ==
  <<<<level, "leaf", leaf_node_num_cells(node)>>>> \o
  [i \in 1..leaf_node_num_cells(node) |-> <<level + 1, "cell", leaf_node_key(node, i - 1)>>]

RECURSIVE print_tree_node(_, _, _, _, _)
RECURSIVE print_tree_children(_, _, _, _, _, _)
\* lines 1335-1356: the children of node from cell i on, then the right child.
print_tree_children(m, node, i, level, path, out) ==
  IF ~Ok(m) THEN [m |-> m, out |-> out]
  ELSE IF i < internal_node_num_keys(node)
  THEN LET r == print_tree_node(m, internal_node_child(node, i), level + 1, path, out)
       IN IF ~Ok(r.m) THEN r
          ELSE print_tree_children(r.m, node, i + 1, level, path,
                 Append(r.out, <<level + 1, "key", internal_node_key(node, i)>>))
  ELSE IF internal_node_right_child(node) # INVALID_PAGE_NUM
  THEN print_tree_node(m, internal_node_right_child(node), level + 1, path, out)
  ELSE [m |-> m, out |-> Append(out, <<level + 1, "empty right child", 0>>)]

print_tree_node(m, page_num, level, path, out) ==
  LET m1 == get_page(m, page_num) IN
  IF ~Ok(m1) THEN [m |-> m1, out |-> out]
  ELSE LET node == m1.pages[page_num] IN
       IF ~KnownType(node) THEN [m |-> Fail(m1, "panic"), out |-> out]
       ELSE IF get_node_type(node) = NODE_LEAF
       THEN IF ~InCells(node) THEN [m |-> Fail(m1, "unmodelled"), out |-> out]
            ELSE [m |-> m1, out |-> out \o LeafLines(node, level)]
       ELSE IF ~InOverlay(node) THEN [m |-> Fail(m1, "unmodelled"), out |-> out]
       ELSE IF \E i \in 0..(internal_node_num_keys(node) - 1) :
                 internal_node_child_ref(node, i) = "exit"
       THEN [m |-> Fail(m1, "exit"), out |-> out]
       ELSE IF page_num \in path THEN [m |-> Fail(m1, "overflow"), out |-> out]
       ELSE print_tree_children(m1, node, 0, level, path \cup {page_num},
              Append(out, <<level, "internal", internal_node_num_keys(node)>>))

print_tree(m, page_num, indentation_level) ==
  print_tree_node(m, page_num, indentation_level, {}, <<>>)

(***************************************************************************)
(* db_open, db_close and pager_flush.                                      *)
(***************************************************************************)
\* pager_open on a file of whole pages.
pager_open(f) ==
  [pages |-> <<>>, num_pages |-> (Len(f) * PAGE_SIZE) \div PAGE_SIZE,
   file_length |-> Len(f) * PAGE_SIZE, file |-> f, err |-> "none",
   alloc |-> <<>>]

\* db_open without the test of line 1090: page 0 is initialised at every open.
db_open_initializing(f) ==
  LET m1 == get_page(pager_open(f), root_page_num)
  IN Upd(m1, root_page_num,
         set_node_root(initialize_leaf_node(Page(m1, root_page_num)), TRUE))

db_open(f) ==
  IF pager_open(f).num_pages = 0
  THEN LET m1 == get_page(pager_open(f), root_page_num)
       IN Upd(m1, root_page_num,
              set_node_root(initialize_leaf_node(Page(m1, root_page_num)), TRUE))
  ELSE pager_open(f)

\* pager_flush without the seek of line 1174: every page is written at the
\* start of the file.
WriteFilePageUnsought(f, page_num, page) ==
  [i \in 1..(IF Len(f) = 0 THEN 1 ELSE Len(f)) |-> IF i = 1 THEN page ELSE f[i]]

\* write_all of a page at offset page_num * PAGE_SIZE: a write past the end
\* of the file leaves a hole of zero bytes before it.
WriteFilePage(f, page_num, page) ==
  [i \in 1..(IF page_num + 1 > Len(f) THEN page_num + 1 ELSE Len(f)) |->
     IF i = page_num + 1 THEN page
     ELSE IF i <= Len(f) THEN f[i] ELSE ZeroPage]

pager_flush(m, page_num) ==
  IF ~Ok(m) THEN m
  ELSE IF ~Resident(m, page_num) THEN Fail(m, "exit")
  ELSE [m EXCEPT !.file = WriteFilePage(@, page_num, m.pages[page_num])]

\* db_close, lines 1144-1149: slots i..num_pages-1.
RECURSIVE FlushFrom(_, _)
\* line 1147
Drop(m, i) ==
  IF ~Ok(m) THEN m
  ELSE [m EXCEPT !.pages = [x \in (DOMAIN m.pages) \ {i} |-> m.pages[x]]]
FlushFrom(m, i) ==
  IF ~Ok(m) \/ i >= m.num_pages THEN m
  ELSE IF Resident(m, i) THEN FlushFrom(Drop(pager_flush(m, i), i), i + 1)
  ELSE FlushFrom(m, i + 1)

\* lines 1158-1162
DropAll(m) == IF Ok(m) THEN [m EXCEPT !.pages = <<>>] ELSE m
\* db_close with the loop of line 1144 starting at slot 1: page 0 is dropped
\* without being written.
db_close_from_one(m) == DropAll(FlushFrom(m, 1))
db_close(m) == DropAll(FlushFrom(m, 0))

(***************************************************************************)
(* The state machine: one REPL session after another on one database file. *)
(*   pages, num_pages, file_length   the Pager of the running process      *)
(*   file        the database file                                         *)
(*   status      "open" while a process runs, "closed" after .exit, or how *)
(*               the process died ("exit", "panic", "overflow")            *)
(*   last        the last statement, what it returned, what it printed    *)
(*               and the page numbers it was given as unused               *)
(*   rows        history: the rows execute_insert answered Success for,    *)
(*               since the file was created                                *)
(*   sessions    history: the number of processes started so far           *)
(*   closed      history: the Table that the last db_close was called with *)
(***************************************************************************)
VARIABLES pages, num_pages, file_length, file, status, last, rows, sessions,
          closed
vars == <<pages, num_pages, file_length, file, status, last, rows, sessions,
          closed>>

\* Bounds of the sessions explored.
MaxExtend == 22
MaxDup == 1
MaxSessions == 2
MaxChain == 22
FreeKeys == 11

\* The keys a session types.  The keys of Preset come first; the other keys
\* of Window, FreeKeys of them, follow in any order; once all of Window is
\* stored a session goes on upwards from WinHi or downwards from WinLo,
\* MaxExtend keys at most.
WinLo == MaxExtend + 1
WinHi == WinLo + LEAF_NODE_MAX_CELLS
Window == WinLo..WinHi
Keys == 1..(WinHi + MaxExtend)
Preset == {WinLo + 4 * i - 1 : i \in 1..(LEAF_NODE_MAX_CELLS + 1 - FreeKeys)}

\* Usernames, as the little-endian words of their first 24 bytes: "user",
\* "\x01", and a name whose bytes 0..3, 8..11 and 16..19 are 1, 3 and 4.
NameUser == <<1919251317, 0, 0, 0, 0, 0>>
NameOne == <<1, 0, 0, 0, 0, 0>>
NameCrafted == <<1, 0, 3, 0, 4, 0>>
\* The row with the smallest key of Window is the one whose bytes the root
\* keeps when it turns into an internal node.
Names(key) == IF key = WinLo THEN {NameUser, NameOne, NameCrafted} ELSE {NameUser}
\* The rest of a row (the end of the username and the email): 1 for the
\* first insert of a key, 2 for a later one.
FirstRest == 1
AgainRest == 2

M == [pages |-> pages, num_pages |-> num_pages, file_length |-> file_length,
      file |-> file, err |-> "none", alloc |-> <<>>]

StoredKeys == {r.id : r \in rows}
Min(S) == CHOOSE x \in S : \A y \in S : x <= y
Max(S) == CHOOSE x \in S : \A y \in S : y <= x

\* Keys offered to a session that types the window in any order.
Offered ==
  IF ~(Preset \subseteq StoredKeys) THEN {Min(Preset \ StoredKeys)}
  ELSE IF ~(Window \subseteq StoredKeys) THEN Window \ StoredKeys
  ELSE {k \in Keys \ StoredKeys :
          \/ k = Max(StoredKeys) + 1 /\ Min(StoredKeys) = WinLo
          \/ k = Min(StoredKeys) - 1 /\ Max(StoredKeys) = WinHi}
\* Keys offered to a session that types ascending or descending keys only.
OfferedChain ==
  IF StoredKeys = {} THEN {WinLo, WinHi}
  ELSE {k \in Keys \ StoredKeys :
          \/ k = Max(StoredKeys) + 1 /\ Min(StoredKeys) = WinLo
          \/ k = Min(StoredKeys) - 1 /\ Max(StoredKeys) = WinHi}
\* A key is typed a second time at either end of the window.
AgainKeys == {WinLo, WinHi}
Again == {r \in rows : r.rest = AgainRest}

Init ==
  /\ pages = db_open(<<>>).pages
  /\ num_pages = db_open(<<>>).num_pages
  /\ file_length = db_open(<<>>).file_length
  /\ file = <<>>
  /\ status = "open"
  /\ last = [op |-> "open", key |-> 0, result |-> "Success", out |-> <<>>,
             alloc |-> <<>>]
  /\ rows = {}
  /\ sessions = 1
  /\ closed = pager_open(<<>>)

\* The process is gone: its pager with it.
Dies(why) ==
  /\ pages' = <<>>
  /\ num_pages' = 0
  /\ status' = why

\* main, "insert <id> <username> <email>": prepare_statement, execute_insert.
\* r is what execute_insert returned for row.
AfterInsert(r, row) ==
  /\ file' = r.m.file
  /\ IF Ok(r.m)
     THEN /\ pages' = r.m.pages
          /\ num_pages' = r.m.num_pages
          /\ status' = "open"
          /\ last' = [op |-> "insert", key |-> row.id, result |-> r.result,
                      out |-> <<>>, alloc |-> r.m.alloc]
          /\ rows' = IF r.result = "Success" THEN rows \cup {row} ELSE rows
     ELSE /\ Dies(r.m.err)
          /\ last' = [op |-> "insert", key |-> row.id, result |-> "Abort",
                      out |-> <<>>, alloc |-> r.m.alloc]
          /\ rows' = rows
ExecuteInsert(key, username, rest) ==
  /\ status = "open"
  /\ AfterInsert(execute_insert(M, [id |-> key, un |-> username, rest |-> rest]),
                 [id |-> key, un |-> username, rest |-> rest])
  /\ UNCHANGED <<file_length, sessions, closed>>

InsertNew == \E key \in Offered : \E username \in Names(key) :
               ExecuteInsert(key, username, FirstRest)
InsertChain == /\ Cardinality(StoredKeys) < MaxChain
               /\ \E key \in OfferedChain : \E username \in Names(key) :
                    ExecuteInsert(key, username, FirstRest)
InsertAgain == /\ Cardinality(Again) < MaxDup
               /\ \E key \in AgainKeys \cap StoredKeys :
                    ExecuteInsert(key, NameUser, AgainRest)

\* main, "select": execute_select.
AfterSelect(r) ==
  /\ file' = r.m.file
  /\ IF Ok(r.m)
     THEN /\ pages' = r.m.pages
          /\ num_pages' = r.m.num_pages
          /\ status' = "open"
          /\ last' = [op |-> "select", key |-> 0, result |-> "Success",
                      out |-> r.out, alloc |-> <<>>]
     ELSE /\ Dies(r.m.err)
          /\ last' = [op |-> "select", key |-> 0, result |-> "Abort",
                      out |-> r.out, alloc |-> <<>>]
ExecuteSelect ==
  /\ status = "open"
  /\ AfterSelect(execute_select(M))
  /\ UNCHANGED <<file_length, rows, sessions, closed>>

\* main, ".btree": do_meta_command calls print_tree(pager, 0, 0).
AfterBtree(r) ==
  /\ file' = r.m.file
  /\ IF Ok(r.m)
     THEN /\ pages' = r.m.pages
          /\ num_pages' = r.m.num_pages
          /\ status' = "open"
          /\ last' = [op |-> "btree", key |-> 0, result |-> "Success",
                      out |-> r.out, alloc |-> <<>>]
     ELSE /\ Dies(r.m.err)
          /\ last' = [op |-> "btree", key |-> 0, result |-> "Abort",
                      out |-> r.out, alloc |-> <<>>]
PrintTree ==
  /\ status = "open"
  /\ AfterBtree(print_tree(M, 0, 0))
  /\ UNCHANGED <<file_length, rows, sessions, closed>>

\* main, ".exit": do_meta_command calls db_close and the process exits.
AfterClose(m) ==
  /\ file' = m.file
  /\ Dies(IF Ok(m) THEN "closed" ELSE m.err)
DbClose ==
  /\ status = "open"
  /\ AfterClose(db_close(M))
  /\ last' = [op |-> "close", key |-> 0, result |-> "Success", out |-> <<>>,
              alloc |-> <<>>]
  /\ closed' = M
  /\ UNCHANGED <<file_length, rows, sessions>>

AfterOpen(m) ==
  /\ pages' = m.pages
  /\ num_pages' = m.num_pages
  /\ file_length' = m.file_length
\* main: a new process opens the file the last one closed.
DbOpen ==
  /\ status = "closed"
  /\ sessions < MaxSessions
  /\ sessions' = sessions + 1
  /\ AfterOpen(db_open(file))
  /\ status' = "open"
  /\ last' = [op |-> "open", key |-> 0, result |-> "Success", out |-> <<>>,
              alloc |-> <<>>]
  /\ UNCHANGED <<file, rows, closed>>

\* One session that types the free keys of the window in any order.
Next == InsertNew \/ InsertAgain \/ ExecuteSelect \/ PrintTree
Spec == Init /\ [][Next]_vars

\* Sessions that type ascending or descending keys, close and reopen.
NextReopen == InsertChain \/ ExecuteSelect \/ PrintTree \/ DbClose \/ DbOpen
SpecReopen == Init /\ [][NextReopen]_vars

\* No run of either specification reads or writes a word of a page that the
\* model does not keep.
NeverUnmodelled == status # "unmodelled"

(***************************************************************************)
(* Properties.  The tree is read from the cache of the running process.    *)
(***************************************************************************)
IsNode(n) == n \in DOMAIN pages
IsInternal(n) == IsNode(n) /\ get_node_type(pages[n]) = NODE_INTERNAL
IsLeaf(n) == IsNode(n) /\ get_node_type(pages[n]) = NODE_LEAF
\* The cells in use of an internal node and of a leaf.
KeyRange(n) ==
  0..((IF internal_node_num_keys(pages[n]) <= INTERNAL_NODE_MAX_CELLS
       THEN internal_node_num_keys(pages[n]) ELSE INTERNAL_NODE_MAX_CELLS + 1) - 1)
CellRange(n) ==
  0..((IF leaf_node_num_cells(pages[n]) <= LEAF_NODE_MAX_CELLS
       THEN leaf_node_num_cells(pages[n]) ELSE LEAF_NODE_MAX_CELLS) - 1)
\* The child pointers of an internal node: each cell's child, the right child.
ChildPointers(n) ==
  {internal_node_cell_child(pages[n], j) : j \in KeyRange(n)}
    \cup {internal_node_right_child(pages[n])}
Children(n) == IF IsInternal(n) THEN ChildPointers(n) \cap DOMAIN pages ELSE {}
\* The pages reachable from the pages of S through child pointers.
RECURSIVE ReachFrom(_)
ReachFrom(S) ==
  LET T == S \cup UNION {Children(n) : n \in S}
  IN IF T = S THEN S ELSE ReachFrom(T)
TreeNodes == ReachFrom({root_page_num} \cap DOMAIN pages)
LeafKeys(n) == {leaf_node_key(pages[n], i) : i \in CellRange(n)}
LeafRows(n) == {leaf_node_value(pages[n], i) : i \in CellRange(n)}
\* The keys stored in the leaves of the subtree of page n.
SubtreeKeys(n) ==
  UNION {LeafKeys(l) : l \in {x \in ReachFrom({n} \cap DOMAIN pages) : IsLeaf(x)}}
\* Every key typed so far was typed once.
DistinctKeys == Cardinality(StoredKeys) = Cardinality(rows)

\* C1: after inserts of distinct keys that all returned Success, select
\* prints exactly the inserted rows, each once, in strictly ascending key
\* order.
C1_SelectYieldsInsertedRows ==
  (last.op = "select" /\ DistinctKeys)
    => /\ last.result = "Success"
       /\ Len(last.out) = Cardinality(rows)
       /\ {last.out[i] : i \in 1..Len(last.out)} = rows
       /\ \A i \in 1..Len(last.out) : \A j \in 1..Len(last.out) :
            i < j => last.out[i].id < last.out[j].id
\* The same for a table whose root is still a leaf.
C1_SelectOfOneLeaf ==
  (last.op = "select" /\ DistinctKeys /\ Cardinality(rows) <= LEAF_NODE_MAX_CELLS)
    => /\ last.result = "Success"
       /\ Len(last.out) = Cardinality(rows)
       /\ {last.out[i] : i \in 1..Len(last.out)} = rows
       /\ \A i \in 1..Len(last.out) : \A j \in 1..Len(last.out) :
            i < j => last.out[i].id < last.out[j].id
\* select ran on a table whose root is an internal node.
C1_Witness ==
  /\ last.op = "select"
  /\ status = "open"
  /\ DistinctKeys
  /\ IsInternal(root_page_num)

\* C2: an insert of a key that an earlier insert stored returns DuplicateKey
\* and changes neither a page nor num_pages.
C2_DuplicateKeyRejected ==
  [][(last'.op = "insert" /\ last'.key \in StoredKeys /\ status = "open")
       => /\ last'.result = "DuplicateKey"
          /\ pages' = pages
          /\ num_pages' = num_pages]_vars
\* A key was typed again and the insert returned DuplicateKey.
C2_Witness ==
  /\ last.op = "insert"
  /\ last.result = "DuplicateKey"
  /\ IsInternal(root_page_num)

\* C3: close, then open of the same file: every page the cache held before
\* the close reads through get_page as it was, and select prints the same
\* rows as before the close.
C3_ReopenPreservesPages ==
  (last.op = "open" /\ sessions > 1)
    => /\ num_pages = closed.num_pages
       /\ \A n \in 0..(num_pages - 1) :
            n \in DOMAIN closed.pages
              => Page(get_page(M, n), n) = closed.pages[n]
       /\ execute_select(M).out = execute_select(closed).out
       /\ execute_select(M).m.err = execute_select(closed).m.err
\* A table of several pages was closed and opened again.
C3_Witness ==
  /\ last.op = "open"
  /\ sessions > 1
  /\ num_pages > 2
  /\ Len(execute_select(M).out) > 1

\* The internal nodes reachable from the root are well formed.
InternalNodesSound ==
    \A p \in {x \in TreeNodes : IsInternal(x)} :
      /\ \A i \in KeyRange(p) : \A j \in KeyRange(p) :
           i < j => internal_node_key(pages[p], i) < internal_node_key(pages[p], j)
      /\ ChildPointers(p) \subseteq DOMAIN pages
      /\ \A i \in KeyRange(p) :
           /\ SubtreeKeys(internal_node_cell_child(pages[p], i)) # {}
           /\ internal_node_key(pages[p], i)
                = Max(SubtreeKeys(internal_node_cell_child(pages[p], i)))
      /\ \A i \in KeyRange(p) :
           \A k \in SubtreeKeys(internal_node_right_child(pages[p])) :
             k > internal_node_key(pages[p], i)

\* C4: in every internal node reachable from the root the keys are strictly
\* ascending, every child pointer is the number of an existing page, key(i)
\* is the largest key of the subtree of child(i), and every key of the
\* subtree of the right child is above the last key.
C4_InternalNodeInvariants == status = "open" => InternalNodesSound

\* The leftmost leaf: child 0 of each internal node, from page n down.
RECURSIVE LeftmostLeaf(_, _)
LeftmostLeaf(n, seen) ==
  IF ~IsNode(n) \/ n \in seen THEN INVALID_PAGE_NUM
  ELSE IF IsLeaf(n) THEN n
  ELSE LeftmostLeaf(IF internal_node_num_keys(pages[n]) > 0
                    THEN internal_node_cell_child(pages[n], 0)
                    ELSE internal_node_right_child(pages[n]), seen \cup {n})
\* The pages that next_leaf visits from page n on, in order; the chain ends
\* with INVALID_PAGE_NUM when it leaves the leaves or comes back to a page.
RECURSIVE LeafChain(_, _)
LeafChain(n, acc) ==
  IF ~IsLeaf(n) \/ n \in {acc[i] : i \in 1..Len(acc)}
  THEN Append(acc, INVALID_PAGE_NUM)
  ELSE IF get_leaf_node_next_leaf(pages[n]) = 0 THEN Append(acc, n)
  ELSE LeafChain(get_leaf_node_next_leaf(pages[n]), Append(acc, n))
Chain == LeafChain(LeftmostLeaf(root_page_num, {}), <<>>)

\* C5: next_leaf from the leftmost leaf visits every leaf page once, in
\* ascending key order, ends at a leaf whose next_leaf is 0, and visits
\* exactly the leaves reachable from the root.
C5_LeafChain ==
  status = "open" =>
    /\ \A i \in 1..Len(Chain) : Chain[i] # INVALID_PAGE_NUM
    /\ {Chain[i] : i \in 1..Len(Chain)} = {n \in DOMAIN pages : IsLeaf(n)}
    /\ {Chain[i] : i \in 1..Len(Chain)} = {n \in TreeNodes : IsLeaf(n)}
    /\ \A i \in 1..(Len(Chain) - 1) :
         \A a \in LeafKeys(Chain[i]) : \A b \in LeafKeys(Chain[i + 1]) : a < b

\* The child that child_num designates: a cell's child, or the right child
\* for child_num = num_keys.
ChildAt(p, child_num) ==
  IF child_num \in KeyRange(p) THEN internal_node_cell_child(pages[p], child_num)
  ELSE internal_node_right_child(pages[p])
ChildNums(p) == KeyRange(p) \cup {internal_node_num_keys(pages[p])}

\* C6: the parent of every page other than the root is an internal node
\* that lists the page among its children, and no page is listed at two
\* positions.
C6_ParentPointers ==
  status = "open" =>
    /\ \A n \in DOMAIN pages \ {root_page_num} :
         /\ IsInternal(node_parent(pages[n]))
         /\ n \in ChildPointers(node_parent(pages[n]))
    /\ \A p \in {x \in TreeNodes : IsInternal(x)} :
         \A q \in {x \in TreeNodes : IsInternal(x)} :
           \A c \in ChildNums(p) : \A d \in ChildNums(q) :
             (p # q \/ c # d) => ChildAt(p, c) # ChildAt(q, d)

\* C7: in every leaf page the keys of the cells in use are strictly
\* ascending.
C7_LeafKeysAscending ==
  status = "open" =>
    \A n \in {x \in DOMAIN pages : IsLeaf(x)} :
      \A i \in CellRange(n) : \A j \in CellRange(n) :
        i < j => leaf_node_key(pages[n], i) < leaf_node_key(pages[n], j)
\* An insert put a key before the end of a leaf of a tree with several
\* leaves, one of them full.
C7_Witness ==
  /\ status = "open"
  /\ last.op = "insert"
  /\ last.result = "Success"
  /\ last.key < Max(StoredKeys)
  /\ IsInternal(root_page_num)
  /\ \E n \in DOMAIN pages :
       IsLeaf(n) /\ leaf_node_num_cells(pages[n]) = LEAF_NODE_MAX_CELLS

\* C8: exactly one page is marked as the root, it is page 0, and
\* root_page_num is 0.
C8_OneRootAtPageZero ==
  status = "open" =>
    /\ {n \in DOMAIN pages : is_node_root(pages[n])} = {0}
    /\ root_page_num = 0
\* The root was promoted from a leaf to an internal node, and then from an
\* internal node: one of its children is an internal node.
C8_Witness ==
  /\ status = "open"
  /\ IsInternal(root_page_num)
  /\ \E c \in Children(root_page_num) : c # root_page_num /\ IsInternal(c)

\* C9: after LEAF_NODE_MAX_CELLS + 1 distinct keys, typed in any order, page
\* 0 is an internal node with one key; its child 0 and its right child are
\* two leaves that hold the LEAF_NODE_LEFT_SPLIT_COUNT smallest and the
\* LEAF_NODE_RIGHT_SPLIT_COUNT largest rows; key 0 is the largest key of
\* the left leaf.
C9_FirstSplit ==
  (status = "open" /\ DistinctKeys /\ Cardinality(rows) = LEAF_NODE_MAX_CELLS + 1)
    => /\ IsInternal(root_page_num)
       /\ internal_node_num_keys(pages[root_page_num]) = 1
       /\ IsLeaf(ChildAt(root_page_num, 0))
       /\ IsLeaf(ChildAt(root_page_num, 1))
       /\ ChildAt(root_page_num, 0) # ChildAt(root_page_num, 1)
       /\ leaf_node_num_cells(pages[ChildAt(root_page_num, 0)])
            = LEAF_NODE_LEFT_SPLIT_COUNT
       /\ leaf_node_num_cells(pages[ChildAt(root_page_num, 1)])
            = LEAF_NODE_RIGHT_SPLIT_COUNT
       /\ LeafRows(ChildAt(root_page_num, 0)) \cup LeafRows(ChildAt(root_page_num, 1))
            = rows
       /\ \A a \in LeafKeys(ChildAt(root_page_num, 0)) :
            \A b \in LeafKeys(ChildAt(root_page_num, 1)) : a < b
       /\ internal_node_key(pages[root_page_num], 0)
            = Max(LeafKeys(ChildAt(root_page_num, 0)))
\* The 14th key, not the largest, has just been stored.
C9_Witness ==
  /\ status = "open"
  /\ DistinctKeys
  /\ Cardinality(rows) = LEAF_NODE_MAX_CELLS + 1
  /\ last.op = "insert"
  /\ last.result = "Success"
  /\ last.key < Max(StoredKeys)

\* The number of pages from page n down to the leftmost leaf.
RECURSIVE Depth(_, _)
Depth(n, seen) ==
  IF ~IsNode(n) \/ n \in seen THEN 0
  ELSE IF IsLeaf(n) THEN 1
  ELSE 1 + Depth(ChildAt(n, 0), seen \cup {n})
\* The keys of the leaves under page n, child after child; a leaf listed
\* twice counts twice.
RECURSIVE TreeKeySeq(_, _)
RECURSIVE ChildrenKeySeq(_, _, _)
TreeKeySeq(n, path) ==
  IF ~IsNode(n) \/ n \in path THEN <<>>
  ELSE IF IsLeaf(n)
  THEN [i \in 1..Cardinality(CellRange(n)) |-> leaf_node_key(pages[n], i - 1)]
  ELSE ChildrenKeySeq(n, 0, path \cup {n})
ChildrenKeySeq(n, child_num, path) ==
  IF child_num > Cardinality(KeyRange(n)) THEN <<>>
  ELSE TreeKeySeq(ChildAt(n, child_num), path)
         \o ChildrenKeySeq(n, child_num + 1, path)
TreeDepth == Depth(root_page_num, {})
TreeKeys == TreeKeySeq(root_page_num, {})
\* The leaves reachable from the root hold every stored key once.
EveryKeyOnce ==
  /\ Len(TreeKeys) = Cardinality(StoredKeys)
  /\ {TreeKeys[i] : i \in 1..Len(TreeKeys)} = StoredKeys
\* The insert of `key` splits the internal root: the root is full, and so
\* is the leaf of the key, a child of the root.
SplitsRoot(key) ==
  /\ IsInternal(root_page_num)
  /\ internal_node_num_keys(pages[root_page_num]) = INTERNAL_NODE_MAX_CELLS
  /\ Ok(table_find(M, key).m)
  /\ IsLeaf(table_find(M, key).page_num)
  /\ leaf_node_num_cells(pages[table_find(M, key).page_num]) = LEAF_NODE_MAX_CELLS
  /\ node_parent(pages[table_find(M, key).page_num]) = root_page_num
  /\ key \notin LeafKeys(table_find(M, key).page_num)

\* C10: the insert that splits the internal root of a well-formed tree
\* makes the tree one level deeper, and afterwards the leaves reachable from
\* the root hold every inserted key once.
C10_RootSplit ==
  [][(status = "open" /\ DistinctKeys /\ InternalNodesSound /\ EveryKeyOnce
        /\ last'.op = "insert" /\ SplitsRoot(last'.key))
       => /\ last'.result = "Success"
          /\ TreeDepth' = TreeDepth + 1
          /\ EveryKeyOnce']_vars
\* The insert that splits the internal root of a well-formed tree returned.
C10_Witness ==
  /\ status = "open"
  /\ last.op = "insert"
  /\ last.result = "Success"
  /\ DistinctKeys
  /\ IsInternal(root_page_num)
  /\ \E c \in Children(root_page_num) : c # root_page_num /\ IsInternal(c)

\* The table a new process builds from an empty file when it is given the
\* rows of rs in ascending key order; a statement that does not answer
\* Success ends the comparison ("rejected").
RECURSIVE InsertAscending(_, _)
InsertAscending(m, rs) ==
  IF rs = {} \/ ~Ok(m) THEN m
  ELSE LET row == CHOOSE x \in rs : \A y \in rs : x.id <= y.id
           r == execute_insert(m, row)
       IN InsertAscending(FailIf(r.m, r.result # "Success", "rejected"), rs \ {row})
AscendingSelect == execute_select(InsertAscending(db_open(<<>>), rows))
RowSet(out) == {out[i] : i \in 1..Len(out)}

\* C11: the rows select prints after distinct keys were inserted in the order
\* of this session are, as a set, the rows select prints after the same rows
\* were inserted in ascending key order into an empty table.
C11_OrderIndependentSelect ==
  (status = "open" /\ last.op = "select" /\ DistinctKeys /\ Ok(AscendingSelect.m))
    => RowSet(last.out) = RowSet(AscendingSelect.out)
\* A select after the session typed a key below the first one it typed.
C11_Witness ==
  /\ status = "open"
  /\ last.op = "select"
  /\ DistinctKeys
  /\ Ok(AscendingSelect.m)
  /\ \E key \in StoredKeys : key < WinLo
  /\ IsInternal(root_page_num)

\* C12: every page number get_unused_page_num returns during an insert is
\* the number of no page the pager holds when the insert starts, and no two
\* calls of it during one insert return the same number.
C12_FreshPages ==
  [][(status = "open" /\ last'.op = "insert")
       => /\ \A i \in DOMAIN last'.alloc : last'.alloc[i] \notin DOMAIN pages
          /\ \A i, j \in DOMAIN last'.alloc : i # j => last'.alloc[i] # last'.alloc[j]]_vars
\* An insert that answered Success after the split of an internal root.
C12_Witness ==
  /\ status = "open"
  /\ last.op = "insert"
  /\ last.result = "Success"
  /\ Len(last.alloc) >= 3

\* The pages of the file when it was opened, and the highest page number
\* that is in the file or was fetched through get_page by this process (the
\* cache keeps every page it fetched until db_close); -1 when there is none.
FilePagesAtOpen == 0..((file_length \div PAGE_SIZE) - 1)
HighestPage ==
  IF (DOMAIN pages) \cup FilePagesAtOpen = {} THEN -1
  ELSE Max((DOMAIN pages) \cup FilePagesAtOpen)

\* C13: while a process runs, num_pages is one plus the highest page number
\* on disk at open or fetched through get_page; no statement of a process
\* makes num_pages smaller, and a process that opens the file starts with at
\* least the num_pages the process that closed it had.
C13_NumPagesIsHighestPlusOne ==
  /\ [](status = "open" => num_pages = HighestPage + 1)
  /\ [][/\ (status = "open" /\ status' = "open") => num_pages' >= num_pages
        /\ (status = "closed" /\ status' = "open") => num_pages' >= closed.num_pages]_vars
\* A process that opened a file of whole pages has fetched a page beyond it.
C13_Witness ==
  /\ status = "open"
  /\ sessions > 1
  /\ num_pages > file_length \div PAGE_SIZE
  /\ file_length \div PAGE_SIZE > 1

\* C14: the file changes in no step other than the .exit of a running
\* process (db_close): insert (with its table_find), select and .btree leave
\* it as it is.
C14_OnlyCloseWritesFile ==
  [][file' # file => (status = "open" /\ last'.op = "close")]_vars
\* After an insert into a file an earlier process closed, the cache holds
\* pages that differ from the file.
C14_Witness ==
  /\ status = "open"
  /\ sessions > 1
  /\ last.op = "insert"
  /\ last.result = "Success"
  /\ \E n \in DOMAIN pages : n + 1 > Len(file) \/ pages[n] # file[n + 1]

\* The pager of the running process once it has fetched the last page the
\* cache has room for: num_pages = TABLE_MAX_PAGES.
PagerAtMaxPages == get_page(M, TABLE_MAX_PAGES - 1)
InsertOutcomes == {"Success", "DuplicateKey", "Abort"}
ProbeRow(key) == [id |-> key, un |-> NameUser, rest |-> AgainRest]
\* The keys at either end of the window and next to the stored keys.
ProbeKeys ==
  AgainKeys \cup (IF StoredKeys = {} THEN {}
                  ELSE {Max(StoredKeys) + 1, Min(StoredKeys) - 1})

\* C15: execute_insert on a statement that carries a row answers Success or
\* DuplicateKey, or the process ends; never TableFull.  This holds for every
\* insert of a session, into full leaves too, and for an insert of a key of
\* ProbeKeys when num_pages is TABLE_MAX_PAGES.
C15_NeverTableFull ==
  /\ last.op = "insert" => last.result \in InsertOutcomes
  /\ status = "open" =>
       \A key \in ProbeKeys :
         execute_insert(PagerAtMaxPages, ProbeRow(key)).result \in InsertOutcomes
\* The tree has a full leaf: the insert of a new key into it answers Success
\* after a split, and ends the process when num_pages is TABLE_MAX_PAGES.
C15_Witness ==
  /\ status = "open"
  /\ IsInternal(root_page_num)
  /\ PagerAtMaxPages.num_pages = TABLE_MAX_PAGES
  /\ \E key \in ProbeKeys \ StoredKeys :
       /\ execute_insert(M, ProbeRow(key)).result = "Success"
       /\ Len(execute_insert(M, ProbeRow(key)).m.alloc) > 0
       /\ execute_insert(PagerAtMaxPages, ProbeRow(key)).m.err = "exit"

\* The page numbers get_page is asked for: around num_pages, around
\* TABLE_MAX_PAGES, u32::MAX, and the child words of the cells of the root.
ProbePages ==
  {0, num_pages - 1, num_pages, num_pages + 1, TABLE_MAX_PAGES - 1,
   TABLE_MAX_PAGES, TABLE_MAX_PAGES + 1, INVALID_PAGE_NUM}
    \cup {internal_node_cell_child(Page(M, root_page_num), j) :
            j \in 0..(INTERNAL_NODE_MAX_CELLS - 1)}

\* C16: get_page(n) with n >= TABLE_MAX_PAGES ends the process (exit) and
\* leaves the cache and num_pages as they are; with n < TABLE_MAX_PAGES it
\* returns page n, which is then resident.
C16_GetPageBound ==
  status = "open" =>
    \A n \in ProbePages :
      IF n >= TABLE_MAX_PAGES
      THEN /\ get_page(M, n).err = "exit"
           /\ get_page(M, n).pages = pages
           /\ get_page(M, n).num_pages = num_pages
      ELSE /\ Ok(get_page(M, n))
           /\ Resident(get_page(M, n), n)
\* A cell of the internal root carries a child word that is no page number,
\* and the search for a stored key passes it to get_page.
C16_Witness ==
  /\ status = "open"
  /\ IsInternal(root_page_num)
  /\ \E j \in KeyRange(root_page_num) :
       internal_node_cell_child(pages[root_page_num], j) >= TABLE_MAX_PAGES
  /\ \E key \in StoredKeys : table_find(M, key).m.err = "exit"

\* C17: a select or a .btree that returns leaves num_pages as it is and
\* every page of the cache as it is; a page it brings into the cache is the
\* page of the file.  A .btree run again right after a .btree prints the
\* same lines.
C17_ReadsChangeNothing ==
  /\ [][(status = "open" /\ status' = "open" /\ last'.op \in {"select", "btree"})
          => /\ num_pages' = num_pages
             /\ \A n \in DOMAIN pages' : pages'[n] = Page(get_page(M, n), n)]_vars
  /\ []((status = "open" /\ last.op = "btree") => print_tree(M, 0, 0).out = last.out)
\* A .btree in a process that opened a file of several pages printed a tree
\* with an internal root, from pages it had to fetch.
C17_Witness ==
  /\ status = "open"
  /\ sessions > 1
  /\ last.op = "btree"
  /\ Len(last.out) > LEAF_NODE_MAX_CELLS + 1
  /\ last.out[1][2] = "internal"

\* C18: right after db_open, if the file is empty, page 0 is a leaf marked
\* root with no cells and next_leaf 0, and num_pages is 1; if the file has
\* pages, page 0 as the process reads it is page 0 of the file, which is the
\* page 0 the process that closed the file had.
C18_OpenInitialisesOnlyEmptyFile ==
  (status = "open" /\ last.op = "open") =>
    IF Len(file) = 0
    THEN /\ num_pages = 1
         /\ IsLeaf(root_page_num)
         /\ is_node_root(pages[root_page_num])
         /\ leaf_node_num_cells(pages[root_page_num]) = 0
         /\ get_leaf_node_next_leaf(pages[root_page_num]) = 0
    ELSE /\ Page(get_page(M, root_page_num), root_page_num) = file[1]
         /\ file[1] = Page(get_page(closed, root_page_num), root_page_num)
\* A process has opened a file whose root is an internal node.
C18_Witness ==
  /\ status = "open"
  /\ last.op = "open"
  /\ sessions > 1
  /\ Len(file) > 2
  /\ get_node_type(file[1]) = NODE_INTERNAL
  /\ is_node_root(Page(get_page(M, root_page_num), root_page_num))

\* C19: table_start returns a cursor on cell 0 of the leftmost leaf of the
\* tree (the leaf reached from the root through child 0), and its
\* end_of_table is TRUE exactly when that leaf has no cells.
C19_StartAtLeftmostLeaf ==
  status = "open" =>
    /\ table_start(M).page_num = LeftmostLeaf(root_page_num, {})
    /\ table_start(M).cell_num = 0
    /\ table_start(M).end_of_table
         = (leaf_node_num_cells(Page(M, table_start(M).page_num)) = 0)
\* The root is an internal node over a leftmost leaf, and table_start
\* returns a cursor on the root.
C19_Witness ==
  /\ status = "open"
  /\ IsInternal(root_page_num)
  /\ IsLeaf(LeftmostLeaf(root_page_num, {}))
  /\ table_start(M).page_num = root_page_num

\* The smallest index of a cell of node whose key is at least key; the
\* number of cells when there is none.
LowerBound(node, key) ==
  Min({i \in 0..(leaf_node_num_cells(node) - 1) : leaf_node_key(node, i) >= key}
        \cup {leaf_node_num_cells(node)})
\* table_find(M, key) returns, on a leaf, at the smallest index whose key is
\* at least key, with end_of_table FALSE.
FindsSlot(key) ==
  /\ Ok(table_find(M, key).m)
  /\ ~table_find(M, key).end_of_table
  /\ get_node_type(Page(table_find(M, key).m, table_find(M, key).page_num)) = NODE_LEAF
  /\ table_find(M, key).cell_num
       = LowerBound(Page(table_find(M, key).m, table_find(M, key).page_num), key)
\* The cell table_find(M, key) points at holds key.
FindsKey(key) ==
  /\ table_find(M, key).cell_num
       < leaf_node_num_cells(Page(table_find(M, key).m, table_find(M, key).page_num))
  /\ leaf_node_key(Page(table_find(M, key).m, table_find(M, key).page_num),
                   table_find(M, key).cell_num) = key

\* C20: for the stored keys and the keys next to them, table_find returns a
\* cursor with end_of_table FALSE on a leaf, at the smallest index whose key
\* is at least the key sought; for a stored key that cell holds the key.
C20_FindPosition ==
  (status = "open" /\ DistinctKeys) =>
    /\ \A key \in ProbeKeys \cup StoredKeys : FindsSlot(key)
    /\ \A key \in StoredKeys : FindsKey(key)
\* The root is an internal node with two keys and table_find returns for
\* every stored key.
C20_Witness ==
  /\ status = "open"
  /\ DistinctKeys
  /\ IsInternal(root_page_num)
  /\ internal_node_num_keys(pages[root_page_num]) > 1
  /\ \A key \in StoredKeys : FindsSlot(key)

(***************************************************************************)
(* internal_node_find_child on its own: the search is applied to internal  *)
(* nodes with 0..INTERNAL_NODE_MAX_CELLS strictly ascending keys drawn from *)
(* 1..MaxNodeKey, whose unused cells hold what an earlier use of the page   *)
(* left there (0, or a key above every key), and to every key of           *)
(* 0..MaxNodeKey + 1.  last.out is the sequence of the keys of the node.    *)
(***************************************************************************)
MaxNodeKey == 6
AscendingKeys ==
  {ks \in UNION {[1..n -> 1..MaxNodeKey] : n \in 0..INTERNAL_NODE_MAX_CELLS} :
     \A i \in 1..(Len(ks) - 1) : ks[i] < ks[i + 1]}
\* The internal node with the keys ks; cell j - 1 holds key ks[j] and the
\* cells not in use hold the key `stale`.
NodeOfKeys(ks, stale) ==
  [set_internal_node_num_keys(initialize_internal_node(ZeroPage), Len(ks))
     EXCEPT !.cells[0].id = IF Len(ks) >= 1 THEN ks[1] ELSE stale,
            !.cells[0].un = [w \in 1..OverlayWords |->
                               IF w % 2 = 0 /\ w \div 2 < Len(ks)
                               THEN ks[w \div 2 + 1]
                               ELSE stale]]
FindChild ==
  \E ks \in AscendingKeys : \E key \in 0..(MaxNodeKey + 1) :
    \E stale \in {0, MaxNodeKey + 2} :
      /\ last' = [op |-> "find_child", key |-> key,
                  result |-> internal_node_find_child(NodeOfKeys(ks, stale), key),
                  out |-> ks, alloc |-> <<>>]
      /\ UNCHANGED <<pages, num_pages, file_length, file, status, rows, sessions,
                     closed>>
NextFindChild == FindChild
SpecFindChild == Init /\ [][NextFindChild]_vars

\* C21: on an internal node with strictly ascending keys,
\* internal_node_find_child returns the smallest index whose key is at least
\* the key sought, and num_keys when every key is smaller.
C21_FindChildLowerBound ==
  last.op = "find_child" =>
    last.result = Min({i \in 0..(Len(last.out) - 1) : last.out[i + 1] >= last.key}
                        \cup {Len(last.out)})
\* A search in a full node for a key above all its keys, answered num_keys.
C21_Witness ==
  /\ last.op = "find_child"
  /\ Len(last.out) = INTERNAL_NODE_MAX_CELLS
  /\ \A i \in 1..Len(last.out) : last.out[i] < last.key
  /\ last.result = INTERNAL_NODE_MAX_CELLS

\* The cursor cursor_advance leaves when it is called on cell cell_num of
\* the resident leaf n.
AdvancedFrom(n, cell_num) == cursor_advance(Cursor(M, n, cell_num, FALSE))

\* C22: from every cell of every leaf of the cache, cursor_advance leaves
\* the pages and num_pages as they are and cell_num one higher; below
\* num_cells nothing else changes; at num_cells, it sets end_of_table when
\* next_leaf is 0 and otherwise moves to cell 0 of page next_leaf with
\* end_of_table FALSE.
C22_CursorAdvance ==
  status = "open" =>
    \A n \in DOMAIN pages : IsLeaf(n) =>
      \A c \in CellRange(n) :
        /\ AdvancedFrom(n, c).m = M
        /\ IF c + 1 < leaf_node_num_cells(pages[n])
           THEN AdvancedFrom(n, c) = Cursor(M, n, c + 1, FALSE)
           ELSE IF get_leaf_node_next_leaf(pages[n]) = 0
           THEN AdvancedFrom(n, c) = Cursor(M, n, c + 1, TRUE)
           ELSE AdvancedFrom(n, c)
                  = Cursor(M, get_leaf_node_next_leaf(pages[n]), 0, FALSE)
\* The tree has a leaf with a next leaf and a leaf without, and select has
\* walked from the one to the other.
C22_Witness ==
  /\ status = "open"
  /\ last.op = "select"
  /\ Len(last.out) > LEAF_NODE_MAX_CELLS
  /\ \E n \in DOMAIN pages :
       /\ IsLeaf(n)
       /\ leaf_node_num_cells(pages[n]) > 0
       /\ get_leaf_node_next_leaf(pages[n]) # 0
       /\ AdvancedFrom(n, leaf_node_num_cells(pages[n]) - 1).page_num # n
  /\ \E n \in DOMAIN pages :
       /\ IsLeaf(n)
       /\ leaf_node_num_cells(pages[n]) > 0
       /\ AdvancedFrom(n, leaf_node_num_cells(pages[n]) - 1).end_of_table

\* The table leaf_node_insert leaves when it is called with a cursor on slot
\* c of the resident leaf n and the row with key 0.
InsertedAt(n, c) == leaf_node_insert(Cursor(M, n, c, FALSE), 0, ProbeRow(0))

\* C23: on every leaf with fewer than LEAF_NODE_MAX_CELLS cells and every
\* slot c up to num_cells, leaf_node_insert keeps the cells below c, moves
\* each cell from c on one position up, puts the new key and row in cell c,
\* adds one to num_cells, and changes no other page, no other field of the
\* header of the leaf and not num_pages.
C23_LeafInsertFrame ==
  status = "open" =>
    \A n \in DOMAIN pages :
      (IsLeaf(n) /\ leaf_node_num_cells(pages[n]) < LEAF_NODE_MAX_CELLS) =>
        \A c \in 0..leaf_node_num_cells(pages[n]) :
          /\ Ok(InsertedAt(n, c))
          /\ InsertedAt(n, c).num_pages = num_pages
          /\ DOMAIN InsertedAt(n, c).pages = DOMAIN pages
          /\ \A x \in DOMAIN pages : x # n => InsertedAt(n, c).pages[x] = pages[x]
          /\ leaf_node_num_cells(InsertedAt(n, c).pages[n])
               = leaf_node_num_cells(pages[n]) + 1
          /\ [InsertedAt(n, c).pages[n] EXCEPT !.w6 = 0, !.cells = <<>>]
               = [pages[n] EXCEPT !.w6 = 0, !.cells = <<>>]
          /\ \A i \in 0..leaf_node_num_cells(pages[n]) :
               leaf_node_cell(InsertedAt(n, c).pages[n], i)
                 = IF i < c THEN leaf_node_cell(pages[n], i)
                   ELSE IF i = c THEN NewCell(0, ProbeRow(0))
                   ELSE leaf_node_cell(pages[n], i - 1)
\* A leaf under an internal root has room, and the last insert went into the
\* middle of a leaf.
C23_Witness ==
  /\ status = "open"
  /\ IsInternal(root_page_num)
  /\ last.op = "insert"
  /\ last.result = "Success"
  /\ Len(last.alloc) = 0
  /\ \E n \in DOMAIN pages :
       /\ IsLeaf(n)
       /\ leaf_node_num_cells(pages[n]) < LEAF_NODE_MAX_CELLS
       /\ \E i \in CellRange(n) :
            /\ i + 1 < leaf_node_num_cells(pages[n])
            /\ leaf_node_key(pages[n], i) = last.key

\* The cells of the resident leaf n with the cell of the row with key 0
\* spliced in at slot c, as a sequence.
Spliced(n, c) ==
  [j \in 1..(leaf_node_num_cells(pages[n]) + 1) |->
     IF j - 1 < c THEN leaf_node_cell(pages[n], j - 1)
     ELSE IF j - 1 = c THEN NewCell(0, ProbeRow(0))
     ELSE leaf_node_cell(pages[n], j - 2)]
\* The table after lines 559-667 of leaf_node_split_and_insert, called with
\* a cursor on slot c of the resident leaf n: the new page is linked, the
\* cells are gathered and distributed.
SplitCellsOf(n, c) ==
  leaf_split_cells(
    get_page(leaf_split_link(get_page(M, n), n, get_unused_page_num(M)), n),
    n, get_unused_page_num(M), c, NewCell(0, ProbeRow(0)))

\* C24: for every full leaf and every slot c in 0..LEAF_NODE_MAX_CELLS, the
\* sequence leaf_node_split_and_insert gathers is the old cells with the new
\* cell at position c, LEAF_NODE_MAX_CELLS + 1 cells; the old page ends with
\* the first LEAF_NODE_LEFT_SPLIT_COUNT of them and the new page with the
\* last LEAF_NODE_RIGHT_SPLIT_COUNT, and their num_cells say so.
C24_LeafSplitDistribution ==
  status = "open" =>
    \A n \in DOMAIN pages :
      (IsLeaf(n) /\ leaf_node_num_cells(pages[n]) = LEAF_NODE_MAX_CELLS) =>
        \A c \in 0..LEAF_NODE_MAX_CELLS :
          /\ AllCells(pages[n], c, NewCell(0, ProbeRow(0))) = Spliced(n, c)
          /\ Len(Spliced(n, c)) = LEAF_NODE_MAX_CELLS + 1
          /\ Ok(SplitCellsOf(n, c))
          /\ leaf_node_num_cells(SplitCellsOf(n, c).pages[n])
               = LEAF_NODE_LEFT_SPLIT_COUNT
          /\ leaf_node_num_cells(SplitCellsOf(n, c).pages[get_unused_page_num(M)])
               = LEAF_NODE_RIGHT_SPLIT_COUNT
          /\ \A i \in 0..(LEAF_NODE_LEFT_SPLIT_COUNT - 1) :
               leaf_node_cell(SplitCellsOf(n, c).pages[n], i) = Spliced(n, c)[i + 1]
          /\ \A i \in 0..(LEAF_NODE_RIGHT_SPLIT_COUNT - 1) :
               leaf_node_cell(SplitCellsOf(n, c).pages[get_unused_page_num(M)], i)
                 = Spliced(n, c)[LEAF_NODE_LEFT_SPLIT_COUNT + i + 1]
\* A full leaf under an internal root whose split with the new cell at slot
\* 10 puts the new cell at cell 3 of the new page.
C24_Witness ==
  /\ status = "open"
  /\ IsInternal(root_page_num)
  /\ \E n \in DOMAIN pages :
       /\ IsLeaf(n)
       /\ leaf_node_num_cells(pages[n]) = LEAF_NODE_MAX_CELLS
       /\ Ok(SplitCellsOf(n, 10))
       /\ leaf_node_key(SplitCellsOf(n, 10).pages[get_unused_page_num(M)], 3) = 0
       /\ leaf_node_key(SplitCellsOf(n, 10).pages[n], 6)
            = leaf_node_key(pages[n], 6)

\* The leaf the insert of the row last' names went to, in the table before
\* the insert.
SplitLeaf == table_find(M, last'.key).page_num
\* An insert that split a leaf: it succeeded and took at least one new page.
LeafSplitStep ==
  /\ status = "open"
  /\ status' = "open"
  /\ last'.op = "insert"
  /\ last'.result = "Success"
  /\ Len(last'.alloc) > 0
\* The page the old leaf's cells are in after the split: the leaf itself, or
\* the left child create_new_root copied the root leaf to.
SplitLeafAfter ==
  IF is_node_root(pages[SplitLeaf]) THEN last'.alloc[2] ELSE SplitLeaf

\* C25: after a leaf split of P_old producing P_new, next_leaf(P_new) is the
\* next_leaf P_old had before, next_leaf(P_old) is P_new, P_new is a leaf
\* that is not the root, and the next_leaf of every other leaf is unchanged.
C25_SplitLinksLeaves ==
  [][LeafSplitStep =>
       /\ last'.alloc[1] \in DOMAIN pages'
       /\ get_node_type(pages'[last'.alloc[1]]) = NODE_LEAF
       /\ ~is_node_root(pages'[last'.alloc[1]])
       /\ get_leaf_node_next_leaf(pages'[last'.alloc[1]])
            = get_leaf_node_next_leaf(pages[SplitLeaf])
       /\ get_leaf_node_next_leaf(pages'[SplitLeafAfter]) = last'.alloc[1]
       /\ get_node_type(pages'[SplitLeafAfter]) = NODE_LEAF
       /\ \A n \in DOMAIN pages \ {SplitLeaf} :
            IsLeaf(n) =>
              /\ get_node_type(pages'[n]) = NODE_LEAF
              /\ get_leaf_node_next_leaf(pages'[n])
                   = get_leaf_node_next_leaf(pages[n])]_vars
\* The last insert split a leaf that is not the root and not the last of
\* the chain: the new leaf has a successor and the leaf split comes before it.
C25_Witness ==
  /\ status = "open"
  /\ last.op = "insert"
  /\ last.result = "Success"
  /\ Len(last.alloc) = 1
  /\ IsLeaf(last.alloc[1])
  /\ get_leaf_node_next_leaf(pages[last.alloc[1]]) # 0
  /\ IsLeaf(get_leaf_node_next_leaf(pages[last.alloc[1]]))
  /\ \E n \in DOMAIN pages :
       /\ IsLeaf(n)
       /\ get_leaf_node_next_leaf(pages[n]) = last.alloc[1]
       /\ \E i \in CellRange(n) : leaf_node_key(pages[n], i) = last.key

\* The cells of the internal node p give the largest key of their children,
\* in ascending order.
ParentKeysSound(p) ==
  /\ IsInternal(p)
  /\ InOverlay(pages[p])
  /\ \A i \in KeyRange(p) : \A j \in KeyRange(p) :
       i < j => internal_node_key(pages[p], i) < internal_node_key(pages[p], j)
  /\ \A i \in KeyRange(p) :
       /\ internal_node_cell_child(pages[p], i) \in DOMAIN pages
       /\ Ok(get_node_max_key(M, internal_node_cell_child(pages[p], i)).m)
       /\ get_node_max_key(M, internal_node_cell_child(pages[p], i)).v
            = internal_node_key(pages[p], i)
\* The table after lines 559-699 of leaf_node_split_and_insert, called with
\* a cursor on slot c of the resident leaf n that is not the root: the cells
\* are distributed and the key of the parent is updated.
KeyUpdatedOf(n, c) ==
  LET om == get_node_max_key(get_page(SplitCellsOf(n, c), n), n)
      m1 == get_page(om.m, n)
  IN leaf_split_update_key(get_node_max_key(m1, n), om.v,
                           node_parent(Page(m1, n)))
\* The full leaves that are a child of a parent with sound keys.
SplittableLeaves ==
  {n \in DOMAIN pages :
     /\ IsLeaf(n)
     /\ ~is_node_root(pages[n])
     /\ leaf_node_num_cells(pages[n]) = LEAF_NODE_MAX_CELLS
     /\ ParentKeysSound(node_parent(pages[n]))
     /\ \/ internal_node_right_child(pages[node_parent(pages[n])]) = n
        \/ \E i \in KeyRange(node_parent(pages[n])) :
             internal_node_cell_child(pages[node_parent(pages[n])], i) = n}
\* The slots at which the new cell does not become the largest of the old
\* leaf.
SplitSlots == (0..LEAF_NODE_MAX_CELLS) \ {LEAF_NODE_LEFT_SPLIT_COUNT - 1}

\* C26: when a leaf that is not the root is split and the cells of its
\* parent gave the largest keys of their children, the cell of the parent
\* whose child is the leaf gets the new largest key of the leaf as its key,
\* and the key of every other cell of the parent stays as it was: right
\* after the update of the key, and in the parent after the insert.
C26_SplitUpdatesParentKey ==
  /\ [](status = "open" =>
          \A n \in SplittableLeaves : \A c \in SplitSlots :
            /\ Ok(KeyUpdatedOf(n, c))
            /\ internal_node_num_keys(KeyUpdatedOf(n, c).pages[node_parent(pages[n])])
                 = internal_node_num_keys(pages[node_parent(pages[n])])
            /\ \A i \in KeyRange(node_parent(pages[n])) :
                 internal_node_key(KeyUpdatedOf(n, c).pages[node_parent(pages[n])], i)
                   = IF internal_node_cell_child(pages[node_parent(pages[n])], i) = n
                     THEN get_node_max_key(KeyUpdatedOf(n, c), n).v
                     ELSE internal_node_key(pages[node_parent(pages[n])], i))
  /\ [][(/\ LeafSplitStep
         /\ Len(last'.alloc) = 1
         /\ SplitLeaf \in SplittableLeaves)
        => \A i \in KeyRange(node_parent(pages[SplitLeaf])) :
             \E j \in 0..(internal_node_num_keys(pages'[node_parent(pages[SplitLeaf])]) - 1) :
               internal_node_key(pages'[node_parent(pages[SplitLeaf])], j)
                 = IF internal_node_cell_child(pages[node_parent(pages[SplitLeaf])], i)
                        = SplitLeaf
                   THEN leaf_node_key(pages'[SplitLeaf], LEAF_NODE_LEFT_SPLIT_COUNT - 1)
                   ELSE internal_node_key(pages[node_parent(pages[SplitLeaf])], i)]_vars
\* A full leaf in a cell of a parent with sound keys: its split at slot 0
\* lowers the largest key of the leaf and the key of that cell with it.
C26_Witness ==
  /\ status = "open"
  /\ \E n \in SplittableLeaves :
       /\ \E i \in KeyRange(node_parent(pages[n])) :
            /\ internal_node_cell_child(pages[node_parent(pages[n])], i) = n
            /\ internal_node_key(KeyUpdatedOf(n, 0).pages[node_parent(pages[n])], i)
                 < internal_node_key(pages[node_parent(pages[n])], i)
       /\ get_node_max_key(KeyUpdatedOf(n, 0), n).v < get_node_max_key(M, n).v

\* The parent of the leaf the insert split, before the insert.
SplitParent == node_parent(pages[SplitLeaf])
\* An insert that split a leaf that is not the root and put the new leaf
\* into a parent with room.
InsertIntoParentStep ==
  /\ LeafSplitStep
  /\ Len(last'.alloc) = 1
  /\ ~is_node_root(pages[SplitLeaf])
  /\ IsInternal(SplitParent)
  /\ internal_node_num_keys(pages[SplitParent]) < INTERNAL_NODE_MAX_CELLS
  /\ internal_node_right_child(pages[SplitParent]) \in DOMAIN pages
  /\ IsLeaf(internal_node_right_child(pages[SplitParent]))
\* The cells below n of the parent are after the insert as they were.
CellsBelowUnchanged(n) ==
  \A j \in 0..(n - 1) :
    /\ internal_node_cell_child(pages'[SplitParent], j)
         = internal_node_cell_child(pages[SplitParent], j)
    /\ internal_node_key(pages'[SplitParent], j)
         = internal_node_key(pages[SplitParent], j)

\* C27: internal_node_insert(parent, child) on a parent with n keys, n below
\* INTERNAL_NODE_MAX_CELLS, and right child r, the largest key of child above
\* the largest key of r: afterwards cell n is (r, largest key of r), the
\* right child is child, num_keys is n + 1 and cells 0..n-1 are unchanged.
C27_InsertRightmostChild ==
  [][(/\ InsertIntoParentStep
      /\ internal_node_right_child(pages[SplitParent]) = SplitLeaf)
     => /\ internal_node_num_keys(pages'[SplitParent])
             = internal_node_num_keys(pages[SplitParent]) + 1
        /\ internal_node_right_child(pages'[SplitParent]) = last'.alloc[1]
        /\ internal_node_cell_child(pages'[SplitParent],
                                    internal_node_num_keys(pages[SplitParent]))
             = SplitLeaf
        /\ internal_node_key(pages'[SplitParent],
                             internal_node_num_keys(pages[SplitParent]))
             = leaf_node_key(pages'[SplitLeaf], LEAF_NODE_LEFT_SPLIT_COUNT - 1)
        /\ CellsBelowUnchanged(internal_node_num_keys(pages[SplitParent]))]_vars
\* The last insert split the right child of the root: the root has two keys
\* and the new leaf as its right child.
C27_Witness ==
  /\ status = "open"
  /\ last.op = "insert"
  /\ last.result = "Success"
  /\ Len(last.alloc) = 1
  /\ IsInternal(root_page_num)
  /\ internal_node_num_keys(pages[root_page_num]) = 2
  /\ internal_node_right_child(pages[root_page_num]) = last.alloc[1]
  /\ IsLeaf(last.alloc[1])
  /\ leaf_node_key(pages[last.alloc[1]], LEAF_NODE_RIGHT_SPLIT_COUNT - 1) = last.key

\* The largest key of the two halves of the leaf the insert split.
SplitLeafMax == leaf_node_key(pages'[SplitLeaf], LEAF_NODE_LEFT_SPLIT_COUNT - 1)
NewLeafMax == leaf_node_key(pages'[last'.alloc[1]], LEAF_NODE_RIGHT_SPLIT_COUNT - 1)
\* The parent as internal_node_insert finds it: lines 694-699 have updated
\* the key of the leaf split.
ParentAtInsert ==
  update_internal_node_key(pages[SplitParent], SplitLeafMax, SplitLeafMax)
\* The index internal_node_insert computes at line 412-415.
InsertIndex == internal_node_find_child(ParentAtInsert, NewLeafMax)
\* The largest key of the right child of the parent, a leaf.
RightMax ==
  leaf_node_key(pages[internal_node_right_child(pages[SplitParent])],
                leaf_node_num_cells(pages[internal_node_right_child(pages[SplitParent])]) - 1)
\* internal_node_insert of the new leaf takes the branch of lines 430-441.
InsertInMiddleStep ==
  /\ InsertIntoParentStep
  /\ internal_node_right_child(pages[SplitParent]) # SplitLeaf
  /\ NewLeafMax <= RightMax

\* C28: internal_node_insert(parent, child) on a parent with n keys, n below
\* INTERNAL_NODE_MAX_CELLS, and right child r, the largest key of child not
\* above the largest key of r, i the index find_child gives for it:
\* afterwards cell i is (child, largest key of child), the former cells
\* i..n-1 are at i+1..n, num_keys is n + 1 and the right child is still r,
\* for every i in 0..n.
C28_InsertMiddleChild ==
  [][InsertInMiddleStep
     => /\ internal_node_num_keys(pages'[SplitParent])
             = internal_node_num_keys(pages[SplitParent]) + 1
        /\ internal_node_right_child(pages'[SplitParent])
             = internal_node_right_child(pages[SplitParent])
        /\ internal_node_cell_child(pages'[SplitParent], InsertIndex) = last'.alloc[1]
        /\ internal_node_key(pages'[SplitParent], InsertIndex) = NewLeafMax
        /\ \A j \in InsertIndex..(internal_node_num_keys(pages[SplitParent]) - 1) :
             /\ internal_node_cell_child(pages'[SplitParent], j + 1)
                  = internal_node_cell_child(ParentAtInsert, j)
             /\ internal_node_key(pages'[SplitParent], j + 1)
                  = internal_node_key(ParentAtInsert, j)]_vars
\* The last insert split the leftmost leaf under a root with one key: the
\* new leaf went in at index 1 = num_keys.
C28_Witness ==
  /\ status = "open"
  /\ last.op = "insert"
  /\ last.result = "Success"
  /\ Len(last.alloc) = 1
  /\ IsInternal(root_page_num)
  /\ internal_node_num_keys(pages[root_page_num]) = 2
  /\ IsLeaf(last.alloc[1])
  /\ leaf_node_key(pages[last.alloc[1]], 0) # last.key
  /\ internal_node_key(pages[root_page_num], 1)
       = leaf_node_key(pages[last.alloc[1]], LEAF_NODE_RIGHT_SPLIT_COUNT - 1)
  /\ internal_node_key(pages[root_page_num], 0) < last.key + LEAF_NODE_LEFT_SPLIT_COUNT

\* The insert of the row ProbeRow(key) into the running table, followed up
\* to a call of create_new_root.  SplitAt is the table after lines 559-667
\* of leaf_node_split_and_insert, called with the cursor table_find gives.
SplitAt(key) ==
  leaf_split_cells(
    get_page(
      leaf_split_link(
        get_page(table_find(M, key).m, table_find(M, key).page_num),
        table_find(M, key).page_num, get_unused_page_num(table_find(M, key).m)),
      table_find(M, key).page_num),
    table_find(M, key).page_num, get_unused_page_num(table_find(M, key).m),
    table_find(M, key).cell_num, NewCell(key, ProbeRow(key)))
\* The insert of key splits a leaf.
SplitsLeaf(key) ==
  /\ Ok(table_find(M, key).m)
  /\ Resident(table_find(M, key).m, table_find(M, key).page_num)
  /\ leaf_node_num_cells(Page(table_find(M, key).m, table_find(M, key).page_num))
       = LEAF_NODE_MAX_CELLS
  /\ key \notin StoredKeys
\* lines 680-699 and 388-392: the table internal_node_insert finds when it
\* looks at the parent of the leaf split.
ParentAt(key) ==
  LET n == table_find(M, key).page_num
      om == get_node_max_key(get_page(SplitAt(key), n), n)
      m1 == get_page(om.m, n)
      parent_page_num == node_parent(Page(m1, n))
      cm == get_node_max_key(
              leaf_split_update_key(get_node_max_key(m1, n), om.v, parent_page_num),
              get_unused_page_num(table_find(M, key).m))
  IN get_page(cm.m, parent_page_num)
\* The locals of internal_node_split_and_insert when the parent is full.
SplitLocalsAt(key) ==
  split_locals(ParentAt(key),
               node_parent(pages[table_find(M, key).page_num]),
               get_unused_page_num(table_find(M, key).m), TABLE_MAX_PAGES - 1)
\* The insert of key calls create_new_root on the root leaf (line 677), or
\* on the internal root (line 738).
LeafRootCall(key) ==
  /\ SplitsLeaf(key)
  /\ is_node_root(pages[table_find(M, key).page_num])
  /\ Ok(SplitAt(key))
InternalRootCall(key) ==
  /\ SplitsLeaf(key)
  /\ ~is_node_root(pages[table_find(M, key).page_num])
  /\ Ok(ParentAt(key))
  /\ node_parent(pages[table_find(M, key).page_num]) = root_page_num
  /\ internal_node_num_keys(Page(ParentAt(key), root_page_num))
       >= INTERNAL_NODE_MAX_CELLS
  /\ Ok(SplitLocalsAt(key).m)
  /\ SplitLocalsAt(key).splitting_root
\* The table create_new_root is called with, and its right_child_page_num.
RootCallTable(key) ==
  IF LeafRootCall(key) THEN get_page(SplitAt(key), root_page_num)
  ELSE SplitLocalsAt(key).m
RootCallRight(key) ==
  IF LeafRootCall(key) THEN get_unused_page_num(table_find(M, key).m)
  ELSE SplitLocalsAt(key).new_page_num
\* The table after the call, and the left child the call took.
NewRootOf(key) == create_new_root(RootCallTable(key), RootCallRight(key))
LeftOf(key) == get_unused_page_num(RootCallTable(key))
\* The keys whose insert calls create_new_root and returns from it.
RootCalls ==
  {key \in ProbeKeys :
     (LeafRootCall(key) \/ InternalRootCall(key)) /\ Ok(NewRootOf(key))}

\* C29: after create_new_root(table, new_right) page 0 is an internal node
\* with is_root set, num_keys 1, cell 0 = (P_left, largest key of P_left)
\* and right child new_right; P_left holds what the old root held, with
\* is_root cleared and parent 0; the parent of new_right is 0; and P_left is
\* not new_right.
C29_CreateNewRoot ==
  status = "open" =>
    \A key \in RootCalls :
      /\ get_node_type(NewRootOf(key).pages[root_page_num]) = NODE_INTERNAL
      /\ is_node_root(NewRootOf(key).pages[root_page_num])
      /\ internal_node_num_keys(NewRootOf(key).pages[root_page_num]) = 1
      /\ internal_node_cell_child(NewRootOf(key).pages[root_page_num], 0) = LeftOf(key)
      /\ internal_node_key(NewRootOf(key).pages[root_page_num], 0)
           = get_node_max_key(NewRootOf(key), LeftOf(key)).v
      /\ internal_node_right_child(NewRootOf(key).pages[root_page_num])
           = RootCallRight(key)
      /\ NewRootOf(key).pages[LeftOf(key)]
           = set_node_parent(
               set_node_root(RootCallTable(key).pages[root_page_num], FALSE),
               root_page_num)
      /\ node_parent(NewRootOf(key).pages[RootCallRight(key)]) = root_page_num
      /\ LeftOf(key) # RootCallRight(key)
\* The root is a full leaf and an insert that calls create_new_root on it
\* is at hand.
C29_Witness ==
  /\ status = "open"
  /\ \E key \in RootCalls : LeafRootCall(key) /\ IsLeaf(root_page_num)

\* The keys whose insert relocates an internal root and returns from
\* create_new_root.
RootRelocations == {key \in RootCalls : InternalRootCall(key)}
\* The children of the relocated root in the table after create_new_root.
ChildrenOfLeft(key) ==
  {internal_node_cell_child(NewRootOf(key).pages[LeftOf(key)], i) :
     i \in 0..(internal_node_num_keys(NewRootOf(key).pages[LeftOf(key)]) - 1)}
    \cup {internal_node_right_child(NewRootOf(key).pages[LeftOf(key)])}
\* The pages other than the root whose parent is the root after
\* create_new_root.
ParentIsRoot(key) ==
  {n \in DOMAIN NewRootOf(key).pages :
     n # root_page_num /\ node_parent(NewRootOf(key).pages[n]) = root_page_num}
\* Every child of the relocated root has the relocated root as its parent.
ChildrenReparented(key) ==
  \A n \in ChildrenOfLeft(key) :
    /\ n \in DOMAIN NewRootOf(key).pages
    /\ node_parent(NewRootOf(key).pages[n]) = LeftOf(key)

\* C30: when create_new_root relocates an internal root into P_left,
\* afterwards every child of P_left has parent P_left, and no node has
\* parent 0 other than the two children of the new root.
C30_RelocationReparents ==
  status = "open" =>
    \A key \in RootRelocations :
      /\ ChildrenReparented(key)
      /\ ParentIsRoot(key) \subseteq {LeftOf(key), RootCallRight(key)}
\* An insert that relocates an internal root of three keys over four
\* leaves is at hand: the four leaves had parent 0 and get P_left.
C30_Witness ==
  /\ status = "open"
  /\ \E key \in RootRelocations :
       /\ Cardinality(ChildrenOfLeft(key)) = INTERNAL_NODE_MAX_CELLS + 1
       /\ \A n \in ChildrenOfLeft(key) : IsLeaf(n) /\ node_parent(pages[n]) = root_page_num
       /\ SplitLocalsAt(key).child_page_num \in ParentIsRoot(key)

\* The children page n of the cache ps lists, in order: the child of each
\* cell in use, then the right child.
ListedChildren(ps, n) ==
  IF n \notin DOMAIN ps \/ get_node_type(ps[n]) # NODE_INTERNAL
       \/ internal_node_num_keys(ps[n]) > INTERNAL_NODE_MAX_CELLS
  THEN <<>>
  ELSE [j \in 1..(internal_node_num_keys(ps[n]) + 1) |->
          IF j <= internal_node_num_keys(ps[n])
          THEN internal_node_cell_child(ps[n], j - 1)
          ELSE internal_node_right_child(ps[n])]
SeqSet(q) == {q[i] : i \in 1..Len(q)}
NoRepeat(q) == \A i \in 1..Len(q) : \A j \in 1..Len(q) : i # j => q[i] # q[j]
\* The largest key under page n of the cache ps, n a leaf or an internal
\* node over leaves; 0 when the pointers lead nowhere.
MaxKeyIn(ps, n) ==
  LET leaf == IF n \in DOMAIN ps /\ get_node_type(ps[n]) = NODE_INTERNAL
              THEN internal_node_right_child(ps[n]) ELSE n
  IN IF leaf \in DOMAIN ps /\ get_node_type(ps[leaf]) = NODE_LEAF
        /\ leaf_node_num_cells(ps[leaf]) \in 1..LEAF_NODE_MAX_CELLS
     THEN leaf_node_key(ps[leaf], leaf_node_num_cells(ps[leaf]) - 1)
     ELSE 0
\* An insert that split the full internal root of a well-formed tree and
\* returned: internal_node_split_and_insert ran with old = the root, which
\* create_new_root relocated to the third page the insert took; the first
\* page is the incoming child, the second the new sibling.
InternalSplitStep ==
  /\ status = "open"
  /\ status' = "open"
  /\ DistinctKeys
  /\ InternalNodesSound
  /\ last'.op = "insert"
  /\ last'.result = "Success"
  /\ SplitsRoot(last'.key)
  /\ Len(last'.alloc) >= 3

\* C31: after internal_node_split_and_insert on a full internal node old
\* with incoming child c, the children of old and of the new sibling P_new
\* together are the former children of old plus c, each listed once; each
\* has as parent the node that lists it; c is in old if its largest key is
\* below the largest key of old and in P_new otherwise; the grandparent
\* lists old, with the largest key of old as its key, and P_new, and the
\* parent of P_new is the grandparent.
C31_InternalSplit ==
  [][InternalSplitStep
     => /\ SeqSet(ListedChildren(pages', last'.alloc[3])
                    \o ListedChildren(pages', last'.alloc[2]))
             = ChildPointers(root_page_num) \cup {last'.alloc[1]}
        /\ NoRepeat(ListedChildren(pages', last'.alloc[3])
                      \o ListedChildren(pages', last'.alloc[2]))
        /\ \A n \in {last'.alloc[2], last'.alloc[3]} :
             \A ch \in SeqSet(ListedChildren(pages', n)) :
               ch \in DOMAIN pages' /\ node_parent(pages'[ch]) = n
        /\ IF MaxKeyIn(pages', last'.alloc[1]) < MaxKeyIn(pages', last'.alloc[3])
           THEN last'.alloc[1] \in SeqSet(ListedChildren(pages', last'.alloc[3]))
           ELSE last'.alloc[1] \in SeqSet(ListedChildren(pages', last'.alloc[2]))
        /\ \E j \in 1..Len(ListedChildren(pages', root_page_num)) :
             /\ ListedChildren(pages', root_page_num)[j] = last'.alloc[3]
             /\ j <= internal_node_num_keys(pages'[root_page_num])
                  => internal_node_key(pages'[root_page_num], j - 1)
                       = MaxKeyIn(pages', last'.alloc[3])
        /\ last'.alloc[2] \in SeqSet(ListedChildren(pages', root_page_num))
        /\ node_parent(pages'[last'.alloc[2]]) = root_page_num]_vars
\* The insert that split the internal root returned: the root has an
\* internal child, and the insert took three pages or more.
C31_Witness ==
  /\ status = "open"
  /\ last.op = "insert"
  /\ last.result = "Success"
  /\ Len(last.alloc) >= 3
  /\ IsInternal(root_page_num)
  /\ IsInternal(last.alloc[3])
  /\ IsLeaf(last.alloc[1])

FetchedPages ==
  {n \in 0..(TABLE_MAX_PAGES - 1) :
     \/ n <= num_pages + 1
     \/ n <= Len(file) + 1
     \/ n = TABLE_MAX_PAGES - 1}

\* C33: get_page(n) with n below TABLE_MAX_PAGES returns the contents of
\* page n: the cached buffer as it is when slot n is resident, the page of
\* the file when the slot is empty and n lies within the file as measured
\* at open, a page of zeros when the slot is empty and n lies beyond the
\* file; no other slot changes.
C33_GetPageContents ==
  status = "open" =>
    \A n \in FetchedPages :
      /\ Ok(get_page(M, n))
      /\ DOMAIN get_page(M, n).pages = DOMAIN pages \cup {n}
      /\ \A k \in DOMAIN pages : get_page(M, n).pages[k] = pages[k]
      /\ get_page(M, n).file = file
      /\ n \notin DOMAIN pages =>
           get_page(M, n).pages[n]
             = IF n < file_length \div PAGE_SIZE THEN file[n + 1] ELSE ZeroPage
\* A process that opened a file of several pages has changed a page in the
\* cache, has not fetched another page of the file yet, and has room.
C33_Witness ==
  /\ status = "open"
  /\ sessions > 1
  /\ \E n \in DOMAIN pages : n < Len(file) /\ pages[n] # file[n + 1]
  /\ \E n \in 0..(Len(file) - 1) :
       /\ n \notin DOMAIN pages
       /\ file[n + 1] # ZeroPage
       /\ get_page(M, n).pages[n] = file[n + 1]
  /\ get_page(M, num_pages).pages[num_pages] = ZeroPage

\* C34: after every insert every leaf has at most LEAF_NODE_MAX_CELLS cells,
\* every internal node at most INTERNAL_NODE_MAX_CELLS keys, every leaf
\* that is not the root at least one cell, and every internal node
\* reachable from the root at least one key and a right child other than
\* INVALID_PAGE_NUM.
C34_NodeSizes ==
  (status = "open" /\ last.op = "insert") =>
    /\ \A n \in DOMAIN pages :
         /\ IsLeaf(n) => leaf_node_num_cells(pages[n]) <= LEAF_NODE_MAX_CELLS
         /\ IsInternal(n) => internal_node_num_keys(pages[n]) <= INTERNAL_NODE_MAX_CELLS
         /\ (IsLeaf(n) /\ ~is_node_root(pages[n])) => leaf_node_num_cells(pages[n]) >= 1
    /\ \A n \in TreeNodes :
         IsInternal(n) =>
           /\ internal_node_num_keys(pages[n]) >= 1
           /\ internal_node_right_child(pages[n]) # INVALID_PAGE_NUM
\* The last insert split a leaf under a root that has three keys.
C34_Witness ==
  /\ status = "open"
  /\ last.op = "insert"
  /\ last.result = "Success"
  /\ Len(last.alloc) = 1
  /\ IsInternal(root_page_num)
  /\ internal_node_num_keys(pages[root_page_num]) = INTERNAL_NODE_MAX_CELLS
  /\ \E n \in DOMAIN pages :
       IsLeaf(n) /\ leaf_node_num_cells(pages[n]) = LEAF_NODE_LEFT_SPLIT_COUNT

\* The last statement typed a key that is stored already.
TypedAgain ==
  last.op = "insert" /\ last.result # "Success" /\ last.key \in StoredKeys

\* C35: from an empty table, with distinct keys and a tree of fewer than
\* TABLE_MAX_PAGES pages, no insert, search, select or .btree ends the
\* process (child access through a pointer that is INVALID_PAGE_NUM or was
\* never written, page number out of range, unknown node type, largest key
\* of an empty leaf), and every insert returns Success.
C35_NoFatalAbort ==
  (DistinctKeys /\ ~TypedAgain /\ num_pages < TABLE_MAX_PAGES) =>
    /\ status = "open"
    /\ last.op = "insert" => last.result = "Success"
\* Statements on a tree with an internal root returned.
C35_Witness ==
  /\ status = "open"
  /\ DistinctKeys
  /\ IsInternal(root_page_num)
  /\ internal_node_num_keys(pages[root_page_num]) >= 2
  /\ last.op = "btree"


(***************************************************************************)
(* The scan of execute_select: table_start, then cursor_advance until      *)
(* end_of_table.  ScanFrom gives the cursor the scan stops with and the    *)
(* positions <<page_num, cell_num>> it was at, in order; a position met a  *)
(* second time is appended and stops the walk.                             *)
(***************************************************************************)
RECURSIVE ScanFrom(_, _)
ScanFrom(cursor, path) ==
  LET pos == <<cursor.page_num, cursor.cell_num>> IN
  IF ~Ok(cursor.m) \/ cursor.end_of_table THEN [cursor |-> cursor, path |-> path]
  ELSE IF pos \in SeqSet(path) THEN [cursor |-> cursor, path |-> Append(path, pos)]
  ELSE ScanFrom(cursor_advance(cursor), Append(path, pos))

Scan == ScanFrom(table_start(M), <<>>)

\* C36: in every table state reached by inserts from an empty table, the
\* scan from table_start by repeated cursor_advance reaches end_of_table
\* after finitely many steps and is at no <<page, cell>> position twice.
C36_SelectTerminates ==
  status = "open" =>
    /\ Ok(Scan.cursor.m)
    /\ Scan.cursor.end_of_table
    /\ NoRepeat(Scan.path)
\* A scan that went through the cells of more than one page of a table
\* with an internal root.
C36_Witness ==
  /\ status = "open"
  /\ IsInternal(root_page_num)
  /\ Scan.cursor.end_of_table
  /\ Cardinality({Scan.path[i][1] : i \in 1..Len(Scan.path)}) >= 3

====
